---- MODULE Spec2Model ----
(***************************************************************************)
(* A model of pilang: the lazy List / Dict containers (src/src/data.rs),   *)
(* the builtins (src/src/builtin.rs) and the interpreter with its          *)
(* shift-right / shift-left navigation (src/src/interpreter.rs).           *)
(*                                                                         *)
(* Shared values (SValue = Rc<Value>) that can be mutated in place, the    *)
(* Lists and Dicts, live in a heap and are referred to by address, so that *)
(* a partial realization is seen by every holder.                          *)
(***************************************************************************)
EXTENDS Integers, Sequences, FiniteSets, TLC

VARIABLES
    program,   \* Interpreter.program: the stack of frames, outermost (Closed) first
    heap,      \* the Lists and Dicts allocated so far, by address
    pc,        \* "running", "realizing" (inside the loop of realize_all),
               \* "aborted" (todo!, unreachable!, assert!) or "exited"
    steps,     \* number of operations issued so far
    seed,      \* the input given at construction
    last,      \* history: the last operation and what it did
    prev,      \* history: the operation before it
    before,    \* history: program and heap before the last operation
    before2,   \* history: program and heap before the operation before it
    entered,   \* history: for each open descend, the program its ShiftRight found
    taken      \* the generator realize_all took out of a List, while its loop runs

vars == <<program, heap, pc, steps, seed, last, prev, before, before2, entered, taken>>

(***************************************************************************)
(* Bounds of the model.                                                    *)
(***************************************************************************)
MaxSteps == 4
MaxLazySteps == 6
MaxDataSteps == 3
MaxEvalSteps == 2
MaxPending == 3
MaxNestSteps == 7
MaxAvailable == 5
MaxDoneSteps == 6
MaxRealized == 6

(***************************************************************************)
(* data.rs: Value.                                                         *)
(***************************************************************************)
Null == [tag |-> "null"]
BoolV(b) == [tag |-> "bool", b |-> b]
IntV(n) == [tag |-> "int", n |-> n]
FloatV(x) == [tag |-> "float", bits |-> x]
StringV(s) == [tag |-> "string", s |-> s]
ListRef(a) == [tag |-> "list", at |-> a]
DictRef(a) == [tag |-> "dict", at |-> a]
Function(name, arities) == [tag |-> "function", name |-> name, arities |-> arities]

None == [kind |-> "none"]

\* `let r = x; ...`: x is evaluated once, then the rest of the body runs on it
Let1(x, Body(_)) == Body(x)
\* the same, where x has its value before the body runs
Strict(x, Body(_)) == CASE x = x -> Body(x)

\* the character at index i, "" past the end
CharAt(s, i) == IF i >= 1 /\ i <= Len(s) THEN SubSeq(s, i, i) ELSE ""
IsDigit(c) == c \in {"0", "1", "2", "3", "4", "5", "6", "7", "8", "9"}
IsHex(c) ==
    \/ IsDigit(c)
    \/ c \in {"a", "b", "c", "d", "e", "f", "A", "B", "C", "D", "E", "F"}
DigitValue(c) == CHOOSE k \in 0..9 : SubSeq("0123456789", k + 1, k + 1) = c
HexValue(c) ==
    CHOOSE k \in 0..15 :
        \/ SubSeq("0123456789abcdef", k + 1, k + 1) = c
        \/ SubSeq("0123456789ABCDEF", k + 1, k + 1) = c
HexDigit(k) == SubSeq("0123456789abcdef", k + 1, k + 1)
Max(a, b) == IF a >= b THEN a ELSE b
Min(a, b) == IF a <= b THEN a ELSE b
RECURSIVE Pow2(_)
Pow2(k) == IF k = 0 THEN 1 ELSE 2 * Pow2(k - 1)

(***************************************************************************)
(* Natural numbers of any size, for the 53 bits of an f64 and the 64 bits  *)
(* of a u64: the digits of the number in base 2^15, the lowest first and   *)
(* the last one not 0; zero is the empty sequence.                         *)
(***************************************************************************)
LimbBits == 15
Limb == 32768

RECURSIVE NatOf(_)
NatOf(n) == IF n = 0 THEN <<>> ELSE <<n % Limb>> \o NatOf(n \div Limb)
RECURSIVE IntOf(_)
IntOf(a) == IF a = <<>> THEN 0 ELSE a[1] + Limb * IntOf(Tail(a))
RECURSIVE Trim(_)
Trim(a) ==
    IF a = <<>> \/ a[Len(a)] # 0 THEN a ELSE Trim(SubSeq(a, 1, Len(a) - 1))
LimbAt(a, j) == IF j >= 1 /\ j <= Len(a) THEN a[j] ELSE 0
RECURSIVE BitLenOf(_)
BitLenOf(n) == IF n = 0 THEN 0 ELSE 1 + BitLenOf(n \div 2)
\* how many bits a has, and its bit i, the lowest being bit 1
BitLen(a) == IF a = <<>> THEN 0 ELSE LimbBits * (Len(a) - 1) + BitLenOf(a[Len(a)])
Bit(a, i) == (LimbAt(a, (i - 1) \div LimbBits + 1) \div Pow2((i - 1) % LimbBits)) % 2

\* a * 2^k and a / 2^k, for k = 15 q + r
ShlBy(a, q, r) ==
    Trim([j \in 1..(Len(a) + q + 1) |->
              ((LimbAt(a, j - q) * Pow2(r)) % Limb)
              + (LimbAt(a, j - q - 1) \div Pow2(LimbBits - r))])
Shl(a, k) == IF a = <<>> THEN a ELSE ShlBy(a, k \div LimbBits, k % LimbBits)
ShrBy(a, q, r) ==
    IF q >= Len(a) THEN <<>>
    ELSE Trim([j \in 1..(Len(a) - q) |->
                   (LimbAt(a, j + q) \div Pow2(r))
                   + ((LimbAt(a, j + q + 1) * Pow2(LimbBits - r)) % Limb)])
Shr(a, k) == ShrBy(a, k \div LimbBits, k % LimbBits)

RECURSIVE AddFrom(_, _, _, _)
AddFrom(a, b, j, carry) ==
    IF j > Len(a) /\ j > Len(b) THEN (IF carry = 0 THEN <<>> ELSE <<carry>>)
    ELSE <<(LimbAt(a, j) + LimbAt(b, j) + carry) % Limb>>
         \o AddFrom(a, b, j + 1, (LimbAt(a, j) + LimbAt(b, j) + carry) \div Limb)
Add(a, b) == AddFrom(a, b, 1, 0)

RECURSIVE SubFrom(_, _, _, _)
SubFrom(a, b, j, borrow) ==
    IF j > Len(a) THEN <<>>
    ELSE <<(Limb + a[j] - LimbAt(b, j) - borrow) % Limb>>
         \o SubFrom(a, b, j + 1, IF a[j] - LimbAt(b, j) - borrow < 0 THEN 1 ELSE 0)
\* a - b, for a >= b
Sub(a, b) == Trim(SubFrom(a, b, 1, 0))

RECURSIVE CmpFrom(_, _, _)
CmpFrom(a, b, j) ==
    IF j = 0 THEN 0
    ELSE IF a[j] # b[j] THEN (IF a[j] > b[j] THEN 1 ELSE -1)
    ELSE CmpFrom(a, b, j - 1)
\* -1, 0 or 1 as a is less than, equal to or more than b
Cmp(a, b) ==
    IF Len(a) # Len(b) THEN (IF Len(a) < Len(b) THEN -1 ELSE 1)
    ELSE CmpFrom(a, b, Len(a))

RECURSIVE MulSmallFrom(_, _, _, _)
MulSmallFrom(a, d, j, carry) ==
    IF j > Len(a) THEN (IF carry = 0 THEN <<>> ELSE <<carry>>)
    ELSE <<(a[j] * d + carry) % Limb>>
         \o MulSmallFrom(a, d, j + 1, (a[j] * d + carry) \div Limb)
\* a * d, for d < 2^15
MulSmall(a, d) == IF d = 0 THEN <<>> ELSE MulSmallFrom(a, d, 1, 0)

RECURSIVE MulFrom(_, _, _, _)
MulFrom(a, b, j, acc) ==
    IF j > Len(b) \/ Len(acc) < 0 THEN acc
    ELSE MulFrom(a, b, j + 1,
                 Add(acc, Shl(MulSmall(a, b[j]), LimbBits * (j - 1))))
Mul(a, b) == MulFrom(a, b, 1, <<>>)

RECURSIVE QuotLimb(_, _, _)
\* the largest digit d with b * d <= r, for r < b * 2^15, from an estimate
\* that is not below it
QuotLimb(r, b, d) ==
    IF Cmp(MulSmall(b, d), r) > 0 THEN QuotLimb(r, b, d - 1) ELSE d
\* the two highest digits of r by the highest of b: when that one is 2^14
\* or more, at most 2 over the digit of the quotient
QuotEstimate(r, b) ==
    Min(Limb - 1,
        (LimbAt(r, Len(b) + 1) * Limb + LimbAt(r, Len(b))) \div b[Len(b)])

RECURSIVE DivFrom(_, _, _, _, _)
\* long division, from digit j of a down: the quotient and the remainder
DivStep(a, b, j, r, quot, d) ==
    Strict(Sub(r, MulSmall(b, d)), LAMBDA rest :
           DivFrom(a, b, j - 1, rest, <<d>> \o quot))
DivFrom(a, b, j, rem, quot) ==
    IF j = 0 THEN [q |-> Trim(quot), r |-> rem]
    ELSE Strict(Trim(<<a[j]>> \o rem), LAMBDA r :
                Strict(QuotLimb(r, b, QuotEstimate(r, b)), LAMBDA d :
                       DivStep(a, b, j, r, quot, d)))
\* a / b and whether a remainder is left, on a and b scaled alike so that
\* the highest digit of b is 2^14 or more
DivScaled(a, b) ==
    IF Len(a) < Len(b) THEN [q |-> <<>>, r |-> a]
    ELSE DivFrom(a, b, Len(a) - Len(b) + 1,
                 Trim(SubSeq(a, Len(a) - Len(b) + 2, Len(a))), <<>>)
DivMod(a, b) ==
    DivScaled(Shl(a, LimbBits - BitLenOf(b[Len(b)])),
              Shl(b, LimbBits - BitLenOf(b[Len(b)])))

(***************************************************************************)
(* f64.  A number is its 64 bits, f64::to_bits, written as 16 hex digits:  *)
(* the sign, the 11 bits of the exponent, the 52 bits of the fraction.     *)
(* The operations are those of IEEE 754, rounding to the nearest number    *)
(* and a tie to the even one.  Every NaN is the one NaN below: the program *)
(* tells no NaN from another.                                              *)
(***************************************************************************)
NaN == "7ff8000000000000"
Inf(negative) == IF negative THEN "fff0000000000000" ELSE "7ff0000000000000"
Zero(negative) == IF negative THEN "8000000000000000" ELSE "0000000000000000"

\* the k hex digits of n
RECURSIVE HexN(_, _)
HexN(n, k) == IF k = 0 THEN "" ELSE HexN(n \div 16, k - 1) \o HexDigit(n % 16)
\* hex digit i of a, the lowest being digit 0
HexAt(a, i) ==
    ((LimbAt(a, (4 * i) \div LimbBits + 1)
      + Limb * LimbAt(a, (4 * i) \div LimbBits + 2))
     \div Pow2((4 * i) % LimbBits)) % 16
RECURSIVE HexOfNat(_, _, _)
\* the hex digits i down to j of a
HexOfNat(a, i, j) ==
    IF i = j THEN HexDigit(HexAt(a, i))
    ELSE HexOfNat(a, i, (i + j) \div 2 + 1) \o HexOfNat(a, (i + j) \div 2, j)
\* hex digit i of the text s, the last being digit 0
DigitAt(s, i) == IF i < Len(s) THEN HexValue(CharAt(s, Len(s) - i)) ELSE 0
\* the number a text of hex digits stands for, 13 digits or fewer
NatOfHex(s) ==
    Trim([j \in 1..4 |->
              ((DigitAt(s, (LimbBits * (j - 1)) \div 4)
                + 16 * DigitAt(s, (LimbBits * (j - 1)) \div 4 + 1)
                + 256 * DigitAt(s, (LimbBits * (j - 1)) \div 4 + 2)
                + 4096 * DigitAt(s, (LimbBits * (j - 1)) \div 4 + 3)
                + 65536 * DigitAt(s, (LimbBits * (j - 1)) \div 4 + 4))
               \div Pow2((LimbBits * (j - 1)) % 4)) % Limb])

\* f64::from_bits, of the sign, the exponent field and the fraction field,
\* which is the low 52 bits of frac
f64_from_bits(negative, exp, frac) ==
    HexN((IF negative THEN 2048 ELSE 0) + exp, 3) \o HexOfNat(frac, 12, 0)

\* 2^52, the bit of a normal number that the fraction field leaves out
Hidden == <<0, 0, 0, 128>>
\* what the fields stand for: NaN, an infinity, a zero, or the finite
\* number (-1)^neg * m * 2^e
Parts(negative, exp, frac) ==
    IF exp = 2047
    THEN [kind |-> IF frac = <<>> THEN "inf" ELSE "nan",
          neg |-> negative, m |-> <<>>, e |-> 0]
    ELSE IF exp = 0
    THEN [kind |-> IF frac = <<>> THEN "zero" ELSE "finite",
          neg |-> negative, m |-> frac, e |-> -1074]
    ELSE [kind |-> "finite", neg |-> negative,
          m |-> Add(frac, Hidden), e |-> exp - 1075]
PartsOfFields(top, frac) == Parts(top >= 2048, top % 2048, frac)
\* f64::to_bits, taken apart
Unpack(x) ==
    PartsOfFields(HexValue(CharAt(x, 1)) * 256 + HexValue(CharAt(x, 2)) * 16
                  + HexValue(CharAt(x, 3)),
                  NatOfHex(SubSeq(x, 4, 16)))

\* all ones in the exponent field and a fraction field that is not 0
IsNaN(x) ==
    /\ SubSeq(x, 1, 3) \in {"7ff", "fff"}
    /\ SubSeq(x, 4, 16) # "0000000000000"
IsZero(x) == x \in {Zero(FALSE), Zero(TRUE)}

\* the f64 of q * 2^e, where q has 53 bits, or fewer and e = -1074
Pack53(negative, q, e) ==
    IF BitLen(q) = 53 /\ e + 1075 >= 2047 THEN Inf(negative)
    ELSE f64_from_bits(negative, IF BitLen(q) < 53 THEN 0 ELSE e + 1075, q)
\* the same where rounding up may have given q = 2^53
Pack(negative, q, e) ==
    IF q = <<>> THEN Zero(negative)
    ELSE Pack53(negative, IF BitLen(q) = 54 THEN Shr(q, 1) ELSE q,
                IF BitLen(q) = 54 THEN e + 1 ELSE e)

\* whether m without its k lowest bits is rounded up: when the bits dropped
\* are more than half of the last bit kept, or half of it and that bit is odd
RoundsUp(m, sticky, k) ==
    /\ Bit(m, k) = 1
    /\ \/ sticky
       \/ \E i \in 1..Min(k - 1, BitLen(m)) : Bit(m, i) = 1
       \/ Bit(m, k + 1) = 1
RoundAt(negative, m, e, sticky, k) ==
    Pack(negative,
         IF k <= 0 THEN Shl(m, -k)
         ELSE Add(Shr(m, k), IF RoundsUp(m, sticky, k) THEN <<1>> ELSE <<>>),
         e + k)

\* the f64 nearest to (-1)^neg * (m + s) * 2^e, where 0 <= s < 1 and s > 0
\* when sticky: 53 bits are kept, fewer below 2^-1022
f64_round(negative, m, e, sticky) ==
    IF m = <<>> THEN Zero(negative)
    ELSE RoundAt(negative, m, e, sticky, Max(e + BitLen(m) - 53, -1074) - e)

\* `n as f64` on a u64
f64_from(n) == f64_round(FALSE, NatOf(n), 0, FALSE)

f64_neg(x) ==
    IF IsNaN(x) THEN NaN
    ELSE HexDigit((HexValue(CharAt(x, 1)) + 8) % 16) \o SubSeq(x, 2, 16)

\* the exact result of an operation on two finite numbers that are not 0:
\* (-1)^neg * (m + s) * 2^e, where 0 <= s < 1 and s > 0 when sticky
Exactly(negative, m, e, sticky) ==
    [neg |-> negative, m |-> m, e |-> e, sticky |-> sticky]

\* a * 2^e and b * 2^e with their signs, added
SumOrdered(xneg, a, yneg, b, e, cmp) ==
    IF xneg = yneg THEN Exactly(xneg, Add(a, b), e, FALSE)
    ELSE IF cmp = 0 THEN Exactly(FALSE, <<>>, e, FALSE)
    ELSE Exactly(IF cmp > 0 THEN xneg ELSE yneg,
                 Sub(IF cmp > 0 THEN a ELSE b, IF cmp > 0 THEN b ELSE a), e, FALSE)
SumAligned(xneg, a, yneg, b, e) == SumOrdered(xneg, a, yneg, b, e, Cmp(a, b))
\* the exponent both are brought to, and p on it: a number more than 2^64
\* times smaller than the other only decides the rounding
CommonExp(p, q) == Max(Min(p.e, q.e), Max(p.e, q.e) - 64)
Aligned(p, e) == IF p.e >= e THEN Shl(p.m, p.e - e) ELSE <<1>>
Sum(p, q, e) == SumAligned(p.neg, Aligned(p, e), q.neg, Aligned(q, e), e)

Product(p, q) == Exactly(p.neg # q.neg, Mul(p.m, q.m), p.e + q.e, FALSE)

\* the quotient to 55 bits or more, and whether anything is left over
QuotientOf(negative, d, e) == Exactly(negative, d.q, e, d.r # <<>>)
Quotient(p, q, s) ==
    QuotientOf(p.neg # q.neg, DivMod(Shl(p.m, s), q.m), p.e - q.e - s)

Exact(op, p, q) ==
    IF op = "Plus" THEN Sum(p, q, CommonExp(p, q))
    ELSE IF op = "Multiply" THEN Product(p, q)
    ELSE Quotient(p, q, Max(0, 55 + BitLen(q.m) - BitLen(p.m)))

\* the result where an operand is an infinity or a zero
Special(op, x, y, p, q) ==
    IF op = "Plus"
    THEN IF p.kind = "inf"
         THEN (IF q.kind = "inf" /\ p.neg # q.neg THEN NaN ELSE x)
         ELSE IF q.kind = "inf" THEN y
         ELSE IF p.kind = "zero" /\ q.kind = "zero" THEN Zero(p.neg /\ q.neg)
         ELSE IF p.kind = "zero" THEN y
         ELSE x
    ELSE IF op = "Multiply"
    THEN IF \/ (p.kind = "inf" /\ q.kind = "zero")
            \/ (p.kind = "zero" /\ q.kind = "inf")
         THEN NaN
         ELSE IF p.kind = "inf" \/ q.kind = "inf" THEN Inf(p.neg # q.neg)
         ELSE Zero(p.neg # q.neg)
    ELSE IF \/ (p.kind = "inf" /\ q.kind = "inf")
            \/ (p.kind = "zero" /\ q.kind = "zero")
    THEN NaN
    ELSE IF p.kind = "inf" \/ q.kind = "zero" THEN Inf(p.neg # q.neg)
    ELSE Zero(p.neg # q.neg)

Rounded(r) == f64_round(r.neg, r.m, r.e, r.sticky)
ArithParts(op, x, y, p, q) ==
    IF p.kind = "nan" \/ q.kind = "nan" THEN NaN
    ELSE IF p.kind = "finite" /\ q.kind = "finite" THEN Rounded(Exact(op, p, q))
    ELSE Special(op, x, y, p, q)
Arith(op, x, y) == ArithParts(op, x, y, Unpack(x), Unpack(y))
\* x + y, x - y, x * y and x / y on f64, op being the kind of the expression;
\* x - y is x + (-y)
f64_arith(op, x, y) ==
    Arith(IF op = "Minus" THEN "Plus" ELSE op, x,
          IF op = "Minus" THEN f64_neg(y) ELSE y)

f64_add(x, y) == f64_arith("Plus", x, y)
f64_sub(x, y) == f64_arith("Minus", x, y)
f64_mul(x, y) == f64_arith("Multiply", x, y)
f64_div(x, y) == f64_arith("Divide", x, y)

\* == on f64: NaN equals nothing, the two zeros are equal
f64_eq(x, y) ==
    /\ ~IsNaN(x)
    /\ ~IsNaN(y)
    /\ (x = y \/ (IsZero(x) /\ IsZero(y)))

\* error.rs: Error
NoError == [kind |-> "none"]
FunctionNotFound(name) == [kind |-> "FunctionNotFound", name |-> name]
InvalidArity(name, got, expected) ==
    [kind |-> "InvalidArity", name |-> name, got |-> got, expected |-> expected]
BuiltinFunctionError(msg) == [kind |-> "BuiltinFunctionError", msg |-> msg]
ShiftRightEmptySequence == [kind |-> "ShiftRightEmptySequence"]
ShiftLeftNotInShift == [kind |-> "ShiftLeftNotInShift"]
VariableNotFound(name) == [kind |-> "VariableNotFound", name |-> name]
InvalidType(expected) == [kind |-> "InvalidType", expected |-> expected]
InvalidTypes(expected) == [kind |-> "InvalidTypes", expected |-> expected]
Abort(msg) == [kind |-> "abort", msg |-> msg]

(***************************************************************************)
(* The world an operation runs in: the heap, and what the operation did    *)
(* to the outside (items pulled from stub generators, native functions     *)
(* invoked, replays run), recorded for the properties.                     *)
(***************************************************************************)
World(h) == [heap |-> h, pulls |-> 0, calls |-> <<>>, replays |-> <<>>]

\* Result<Option<T>>, with the world after the call; st is "ok", "err" or
\* "panic" (the process aborts).
Ret(w, st, some, val, err) ==
    [w |-> w, st |-> st, some |-> some, val |-> val, err |-> err]
Some(w, v) == Ret(w, "ok", TRUE, v, NoError)
Nothing(w) == Ret(w, "ok", FALSE, Null, NoError)
Err(w, e) == Ret(w, "err", FALSE, Null, e)
Panic(w, msg) == Ret(w, "panic", FALSE, Null, Abort(msg))
Fail(r) == Ret(r.w, r.st, FALSE, Null, r.err)

Alloc(w, obj) == [w EXCEPT !.heap = Append(@, obj)]
NewAddr(w) == Len(w.heap) + 1
ListObj(elements, rest) == [kind |-> "list", elements |-> elements, rest |-> rest]
DictObj(elements, rest) == [kind |-> "dict", elements |-> elements, rest |-> rest]

SatSub(a, b) == IF a > b THEN a - b ELSE 0

(***************************************************************************)
(* LazyRest: the pending generator.  A "stub" generator yields the items   *)
(* of a fixed sequence, each a value or an error; a "replay" generator is  *)
(* the one ShiftLeft builds (defined with the interpreter below).          *)
(***************************************************************************)
Stub(items) == [kind |-> "stub", items |-> items]
ItemOk(v) == [ok |-> TRUE, v |-> v]
ItemErr == [ok |-> FALSE, v |-> Null]
StubError == BuiltinFunctionError("generator failed")

StubNext(w, it) ==
    IF it.items = <<>>
    THEN [r |-> Nothing(w), it |-> it]
    ELSE LET item == Head(it.items)
             w1 == [w EXCEPT !.pulls = @ + 1]
             it1 == [it EXCEPT !.items = Tail(@)]
         IN  IF item.ok THEN [r |-> Some(w1, item.v), it |-> it1]
             ELSE [r |-> Err(w1, StubError), it |-> it1]

RECURSIVE ReplayNext(_, _)

\* Iterator::next on the boxed generator `it`: the result and the generator after it
IterNext(w, it) ==
    IF it.kind = "stub" THEN StubNext(w, it) ELSE ReplayNext(w, it)

(***************************************************************************)
(* data.rs: impl List.                                                     *)
(***************************************************************************)
RECURSIVE List_pull(_, _, _)
\* the while loop of List::realize_n: the generator stays in the List while it runs
List_pull(w, a, needed) ==
    IF needed = 0 THEN [w |-> w, st |-> "ok", needed |-> 0, err |-> NoError]
    ELSE Let1(IterNext(w, w.heap[a].rest), LAMBDA nx :
         LET w1 == [nx.r.w EXCEPT !.heap[a].rest = nx.it]
         IN  IF nx.r.st # "ok"
             THEN [w |-> w1, st |-> nx.r.st, needed |-> needed, err |-> nx.r.err]
             ELSE IF nx.r.some
             THEN List_pull([w1 EXCEPT !.heap[a].elements = Append(@, nx.r.val)],
                            a, needed - 1)
             ELSE [w |-> w1, st |-> "ok", needed |-> needed, err |-> NoError])

List_realize_n(w, a, n) ==
    Let1(IF w.heap[a].rest.kind # "none"
         THEN List_pull(w, a, SatSub(n, Len(w.heap[a].elements)))
         ELSE [w |-> w, st |-> "ok", err |-> NoError,
               needed |-> SatSub(n, Len(w.heap[a].elements))],
         LAMBDA p :
         IF p.st # "ok" THEN Ret(p.w, p.st, FALSE, Null, p.err)
         ELSE IF p.needed > 0
         THEN Nothing([p.w EXCEPT !.heap[a].rest = None])
         ELSE Nothing(p.w))

List_get(w, a, n) ==
    Let1(List_realize_n(w, a, n + 1), LAMBDA r :
         IF r.st # "ok" THEN r
         ELSE IF n + 1 <= Len(r.w.heap[a].elements)
         THEN Some(r.w, r.w.heap[a].elements[n + 1])
         ELSE Nothing(r.w))

RECURSIVE List_drain(_, _, _)
\* `for elem in rest { elems.push(elem?) }` on the generator taken out of the List
List_drain(w, a, it) ==
    Let1(IterNext(w, it), LAMBDA nx :
         IF nx.r.st # "ok" THEN Fail(nx.r)
         ELSE IF nx.r.some
         THEN List_drain([nx.r.w EXCEPT !.heap[a].elements = Append(@, nx.r.val)],
                         a, nx.it)
         ELSE Nothing(nx.r.w))

\* a realize_all that drains the generator but leaves it in the List
List_realize_all_keep(w, a) ==
    IF w.heap[a].rest.kind # "none"
    THEN List_drain(w, a, w.heap[a].rest)
    ELSE Nothing(w)

List_realize_all(w, a) ==
    IF w.heap[a].rest.kind # "none"
    THEN List_drain([w EXCEPT !.heap[a].rest = None], a, w.heap[a].rest)
    ELSE Nothing(w)

\* a ListIter that never advances: it gives the element it is at again
ListIter_next_stay(w, it) ==
    [r |-> List_get(w, it.list, it.index), it |-> it]

\* ListIter { list, index }: next() advances the index, then asks the list
ListIter_next(w, it) ==
    [r |-> List_get(w, it.list, (it.index + 1) - 1),
     it |-> [it EXCEPT !.index = @ + 1]]

(***************************************************************************)
(* data.rs: impl Dict.  elements is the IndexMap, a sequence of pairs      *)
(* [k, v] in insertion order with distinct keys.                           *)
(***************************************************************************)
Pair(k, v) == [k |-> k, v |-> v]

HasKey(elements, key) == \E i \in 1..Len(elements) : elements[i].k = key
IndexOf(elements, key) == CHOOSE i \in 1..Len(elements) : elements[i].k = key

\* IndexMap::insert: an existing key keeps its place and takes the new value
IndexMap_insert(elements, k, v) ==
    IF HasKey(elements, k)
    THEN [elements EXCEPT ![IndexOf(elements, k)].v = v]
    ELSE Append(elements, Pair(k, v))

\* IndexMap::get
IndexMap_get(w, elements, key) ==
    IF HasKey(elements, key)
    THEN Some(w, elements[IndexOf(elements, key)].v)
    ELSE Nothing(w)

RECURSIVE Dict_pull(_, _, _)
\* the while loop of Dict::realize_n
Dict_pull(w, a, needed) ==
    IF needed = 0 THEN [w |-> w, st |-> "ok", needed |-> 0, err |-> NoError]
    ELSE Let1(IterNext(w, w.heap[a].rest), LAMBDA nx :
         LET w1 == [nx.r.w EXCEPT !.heap[a].rest = nx.it]
         IN  IF nx.r.st # "ok"
             THEN [w |-> w1, st |-> nx.r.st, needed |-> needed, err |-> nx.r.err]
             ELSE IF nx.r.some
             THEN Dict_pull([w1 EXCEPT !.heap[a].elements =
                                 IndexMap_insert(@, nx.r.val.k, nx.r.val.v)],
                            a, needed - 1)
             ELSE [w |-> w1, st |-> "ok", needed |-> needed, err |-> NoError])

Dict_realize_n(w, a, n) ==
    Let1(IF w.heap[a].rest.kind # "none"
         THEN Dict_pull(w, a, SatSub(n + 1, Len(w.heap[a].elements)))
         ELSE [w |-> w, st |-> "ok", err |-> NoError,
               needed |-> SatSub(n + 1, Len(w.heap[a].elements))],
         LAMBDA p :
         IF p.st # "ok" THEN Ret(p.w, p.st, FALSE, Null, p.err)
         ELSE IF p.needed > 0
         THEN Nothing([p.w EXCEPT !.heap[a].rest = None])
         ELSE Nothing(p.w))

Dict_get_nth(w, a, n) ==
    Let1(Dict_realize_n(w, a, n + 1), LAMBDA r :
         IF r.st # "ok" THEN r
         ELSE IF n + 1 <= Len(r.w.heap[a].elements)
         THEN Some(r.w, r.w.heap[a].elements[n + 1])
         ELSE Nothing(r.w))

Dict_get_first(w, a) ==
    Let1(Dict_realize_n(w, a, 1), LAMBDA r :
         IF r.st # "ok" THEN r
         ELSE IF Len(r.w.heap[a].elements) > 0
         THEN Some(r.w, r.w.heap[a].elements[1])
         ELSE Nothing(r.w))

RECURSIVE Dict_look(_, _, _, _)
\* the for loop of Dict::realize_look_for, on the generator taken out of the Dict
Dict_look(w, a, it, key) ==
    Let1(IterNext(w, it), LAMBDA nx :
         IF nx.r.st # "ok" THEN Fail(nx.r)
         ELSE IF nx.r.some
         THEN LET w1 == [nx.r.w EXCEPT !.heap[a].elements =
                            IndexMap_insert(@, nx.r.val.k, nx.r.val.v)]
              IN  IF nx.r.val.k = key THEN Some(w1, nx.r.val.v)
                  ELSE Dict_look(w1, a, nx.it, key)
         ELSE IndexMap_get(nx.r.w, nx.r.w.heap[a].elements, key))

Dict_realize_look_for(w, a, key) ==
    IF w.heap[a].rest.kind # "none"
    THEN Dict_look([w EXCEPT !.heap[a].rest = None], a, w.heap[a].rest, key)
    ELSE IndexMap_get(w, w.heap[a].elements, key)

Dict_get(w, a, key) ==
    Let1(Dict_realize_look_for(w, a, key), LAMBDA r :
         IF r.st # "ok" THEN r
         ELSE IndexMap_get(r.w, r.w.heap[a].elements, key))

RECURSIVE Dict_drain(_, _, _)
Dict_drain(w, a, it) ==
    Let1(IterNext(w, it), LAMBDA nx :
         IF nx.r.st # "ok" THEN Fail(nx.r)
         ELSE IF nx.r.some
         THEN Dict_drain([nx.r.w EXCEPT !.heap[a].elements =
                              IndexMap_insert(@, nx.r.val.k, nx.r.val.v)],
                         a, nx.it)
         ELSE Nothing(nx.r.w))

Dict_realize_all(w, a) ==
    IF w.heap[a].rest.kind # "none"
    THEN Dict_drain([w EXCEPT !.heap[a].rest = None], a, w.heap[a].rest)
    ELSE Nothing(w)

\* DictIter { dict, index }
DictIter_next(w, it) ==
    [r |-> Dict_get_nth(w, it.dict, (it.index + 1) - 1),
     it |-> [it EXCEPT !.index = @ + 1]]

(***************************************************************************)
(* data.rs: impl Value.                                                    *)
(***************************************************************************)
SampleSize == 3

\* the values a container holds: a List's elements, a Dict's values
Held(h, v) ==
    IF v.tag = "list" THEN h[v.at].elements
    ELSE [i \in 1..Len(h[v.at].elements) |-> h[v.at].elements[i].v]

RECURSIVE Value_sample(_, _), SampleEach(_, _, _)
Value_sample(w, v) ==
    IF v.tag \in {"list", "dict"}
    THEN Let1(IF v.tag = "list" THEN List_realize_n(w, v.at, SampleSize)
              ELSE Dict_realize_n(w, v.at, SampleSize),
              LAMBDA r :
              IF r.st # "ok" THEN r ELSE SampleEach(r.w, Held(r.w.heap, v), 1))
    ELSE Nothing(w)

\* `for e in elements { e.sample()? }`
SampleEach(w, vs, i) ==
    IF i > Len(vs) THEN Nothing(w)
    ELSE Let1(Value_sample(w, vs[i]), LAMBDA r :
         IF r.st # "ok" THEN r ELSE SampleEach(r.w, vs, i + 1))

Value_realize(w, v) ==
    IF v.tag = "list" THEN List_realize_all(w, v.at)
    ELSE IF v.tag = "dict" THEN Dict_realize_all(w, v.at)
    ELSE Nothing(w)

as_number(v) == v.tag \in {"int", "float"}
\* the f64 as_number gives for an Int or a Float
number_of(v) == IF v.tag = "int" THEN f64_from(v.n) ELSE v.bits
as_string(v) == v.tag = "string"
as_bool(v) == v.tag = "bool"
\* as_number / as_string / as_bool, by the name of the type asked for
as_type(v, type) ==
    CASE type = "number" -> as_number(v)
      [] type = "string" -> as_string(v)
      [] type = "boolean" -> as_bool(v)

\* PartialEq: derived on Value, on the realized elements for List and Dict
\* (IndexMap equality ignores the order), by name for Function
RECURSIVE ValueEq(_, _, _)
ValueEq(h, x, y) ==
    IF x.tag # y.tag THEN FALSE
    ELSE IF x.tag = "list"
    THEN LET ex == h[x.at].elements
             ey == h[y.at].elements
         IN  /\ Len(ex) = Len(ey)
             /\ \A i \in 1..Len(ex) : ValueEq(h, ex[i], ey[i])
    ELSE IF x.tag = "dict"
    THEN LET ex == h[x.at].elements
             ey == h[y.at].elements
         IN  /\ Len(ex) = Len(ey)
             /\ \A i \in 1..Len(ex) :
                    /\ HasKey(ey, ex[i].k)
                    /\ ValueEq(h, ex[i].v, ey[IndexOf(ey, ex[i].k)].v)
    ELSE IF x.tag = "function" THEN x.name = y.name
    ELSE IF x.tag = "float" THEN f64_eq(x.bits, y.bits)
    ELSE x = y

(***************************************************************************)
(* parser.rs: Expression and Command, as the interpreter matches them.     *)
(***************************************************************************)
This == [kind |-> "This"]
Literal(v) == [kind |-> "Literal", v |-> v]
Plus(x, y) == [kind |-> "Plus", x |-> x, y |-> y]
Minus(x, y) == [kind |-> "Minus", x |-> x, y |-> y]
UnaryMinus(x) == [kind |-> "UnaryMinus", x |-> x]
Multiply(x, y) == [kind |-> "Multiply", x |-> x, y |-> y]
Divide(x, y) == [kind |-> "Divide", x |-> x, y |-> y]
And(x, y) == [kind |-> "And", x |-> x, y |-> y]
Or(x, y) == [kind |-> "Or", x |-> x, y |-> y]
ListExpr(items) == [kind |-> "List", items |-> items]
DictExpr == [kind |-> "Dict"]
Identifier(name) == [kind |-> "Identifier", name |-> name]
FunctionCall(name, args) == [kind |-> "FunctionCall", name |-> name, args |-> args]

Expression(e) == [kind |-> "Expression", expr |-> e]
ShiftRight(kv) == [kind |-> "ShiftRight", kv |-> kv]
ShiftLeft(leave_kv) == [kind |-> "ShiftLeft", leave_kv |-> leave_kv]

\* Option<(String, String)> and Option<(Expression, Expression)>: <<>> is None
NoKV == <<>>

(***************************************************************************)
(* builtin.rs.                                                             *)
(***************************************************************************)
builtin_functions ==
    [json |-> Function("json", <<1>>),
     get |-> Function("get", <<2>>),
     assoc |-> Function("assoc", <<3>>)]

Contains(seq, x) == \E i \in 1..Len(seq) : seq[i] = x


builtin_get(w, args) ==
    IF Len(args) # 2 THEN Panic(w, "get function expects exactly two arguments")
    ELSE LET key == args[2]
             container == args[1]
         IN  IF key.tag = "string"
             THEN IF container.tag # "dict"
                  THEN Err(w, BuiltinFunctionError(
                           "get function expects a dict as the first argument"))
                  ELSE IF HasKey(w.heap[container.at].elements, key.s)
                  THEN IndexMap_get(w, w.heap[container.at].elements, key.s)
                  ELSE Some(w, Null)
             ELSE IF key.tag = "int"
             THEN IF container.tag # "list"
                  THEN Err(w, BuiltinFunctionError(
                           "get function expects a list as the first argument"))
                  ELSE Let1(List_get(w, container.at, key.n), LAMBDA r :
                       IF r.st # "ok" THEN r
                       ELSE IF r.some THEN r
                       ELSE Err(r.w, BuiltinFunctionError("index out of bounds: " \o ToString(key.n))))
             ELSE Err(w, BuiltinFunctionError(
                      "get function expects a string or an integer as the second argument"))

\* an assoc that writes the update into the container it was given as well
builtin_assoc_in_place(w, args) ==
    IF Len(args) # 3 THEN Panic(w, "assoc function expects exactly three arguments")
    ELSE LET value == args[3]
             key == args[2]
             container == args[1]
         IN  IF key.tag = "string"
             THEN IF container.tag # "dict"
                  THEN Err(w, BuiltinFunctionError(
                           "assoc function expects a dict as the first argument"))
                  ELSE Let1(Dict_realize_all(w, container.at), LAMBDA r :
                       IF r.st # "ok" THEN r
                       ELSE LET elements == IndexMap_insert(
                                    r.w.heap[container.at].elements, key.s, value)
                            IN  Some(Alloc([r.w EXCEPT !.heap[container.at].elements =
                                                elements],
                                           DictObj(elements, None)),
                                     DictRef(NewAddr(r.w))))
             ELSE IF key.tag = "int"
             THEN IF container.tag # "list"
                  THEN Err(w, BuiltinFunctionError(
                           "assoc function expects a list as the first argument"))
                  ELSE Let1(List_realize_all(w, container.at), LAMBDA r :
                       IF r.st # "ok" THEN r
                       ELSE IF key.n + 1 <= Len(r.w.heap[container.at].elements)
                       THEN LET elements == [r.w.heap[container.at].elements
                                                 EXCEPT ![key.n + 1] = value]
                            IN  Some(Alloc([r.w EXCEPT !.heap[container.at].elements =
                                                elements],
                                           ListObj(elements, None)),
                                     ListRef(NewAddr(r.w)))
                       ELSE Err(r.w, BuiltinFunctionError(
                                "index out of bounds: " \o ToString(key.n))))
             ELSE Err(w, BuiltinFunctionError(
                      "assoc function expects a string or an integer as the second argument"))

builtin_assoc(w, args) ==
    IF Len(args) # 3 THEN Panic(w, "assoc function expects exactly three arguments")
    ELSE LET value == args[3]
             key == args[2]
             container == args[1]
         IN  IF key.tag = "string"
             THEN IF container.tag # "dict"
                  THEN Err(w, BuiltinFunctionError(
                           "assoc function expects a dict as the first argument"))
                  ELSE Let1(Dict_realize_all(w, container.at), LAMBDA r :
                       IF r.st # "ok" THEN r
                       ELSE Some(Alloc(r.w, DictObj(
                                     IndexMap_insert(r.w.heap[container.at].elements,
                                                     key.s, value), None)),
                                 DictRef(NewAddr(r.w))))
             ELSE IF key.tag = "int"
             THEN IF container.tag # "list"
                  THEN Err(w, BuiltinFunctionError(
                           "assoc function expects a list as the first argument"))
                  ELSE Let1(List_realize_all(w, container.at), LAMBDA r :
                       IF r.st # "ok" THEN r
                       ELSE IF key.n + 1 <= Len(r.w.heap[container.at].elements)
                       THEN Some(Alloc(r.w, ListObj(
                                     [r.w.heap[container.at].elements
                                          EXCEPT ![key.n + 1] = value], None)),
                                 ListRef(NewAddr(r.w)))
                       ELSE Err(r.w, BuiltinFunctionError("index out of bounds: " \o ToString(key.n))))
             ELSE Err(w, BuiltinFunctionError(
                      "assoc function expects a string or an integer as the second argument"))

(***************************************************************************)
(* serde_json::from_str into serde_json::Value.  A string of the model     *)
(* holds printable ASCII but the backquote, and \t \n \r, as themselves;   *)
(* any other character, of code n, is written as \f and the six hex digits *)
(* of n, so that U+00E9 is "\f0000e9" and the form feed "\f00000c".  An    *)
(* integer that becomes an Int is within the integers of the model.  An    *)
(* object keeps its keys in the order of the text, a repeated key keeping  *)
(* its first place and its last value.                                     *)
(***************************************************************************)
\* serde_json::Number: a u64, a negative i64 (n is its size) or an f64
PosInt(n) == [N |-> "PosInt", n |-> n]
NegInt(n) == [N |-> "NegInt", n |-> n]
Float(f) == [N |-> "Float", f |-> f]
as_u64(n) == n.N = "PosInt"
as_f64(n) ==
    IF n.N = "Float" THEN n.f ELSE f64_round(n.N = "NegInt", n.n, 0, FALSE)

JNull == [j |-> "null"]
JBool(b) == [j |-> "bool", b |-> b]
JNumber(n) == [j |-> "number", n |-> n]
JString(s) == [j |-> "string", s |-> s]
JArray(items) == [j |-> "array", items |-> items]
JObject(fields) == [j |-> "object", fields |-> fields]

\* the result of a parsing step: the value and the index after it
Parsed(v, i) == [ok |-> TRUE, v |-> v, i |-> i]
NotParsed == [ok |-> FALSE, v |-> JNull, i |-> 0]

\* the printable characters from code 32 to code 95, and from 97 to 126
AsciiLow ==
    " !\"#$%&'()*+,-./0123456789:;<=>?@ABCDEFGHIJKLMNOPQRSTUVWXYZ[\\]^_"
AsciiHigh == "abcdefghijklmnopqrstuvwxyz{|}~"

\* the character of code n, as a string of the model holds it
char_from_u32(n) ==
    IF n >= 32 /\ n <= 95 THEN SubSeq(AsciiLow, n - 31, n - 31)
    ELSE IF n >= 97 /\ n <= 126 THEN SubSeq(AsciiHigh, n - 96, n - 96)
    ELSE IF n = 9 THEN "\t"
    ELSE IF n = 10 THEN "\n"
    ELSE IF n = 13 THEN "\r"
    ELSE "\f" \o HexN(n, 6)
\* the code of the character written from index i as \f and six hex digits,
\* -1 when the text has no such character there
code_at(s, i) ==
    IF /\ CharAt(s, i) = "\f"
       /\ i + 6 <= Len(s)
       /\ \A k \in 1..6 : IsHex(CharAt(s, i + k))
    THEN HexValue(CharAt(s, i + 1)) * 1048576 + HexValue(CharAt(s, i + 2)) * 65536
         + HexValue(CharAt(s, i + 3)) * 4096 + HexValue(CharAt(s, i + 4)) * 256
         + HexValue(CharAt(s, i + 5)) * 16 + HexValue(CharAt(s, i + 6))
    ELSE -1

RECURSIVE parse_whitespace(_, _)
\* the index of the first character that is not whitespace
parse_whitespace(s, i) ==
    IF CharAt(s, i) \in {" ", "\n", "\t", "\r"} THEN parse_whitespace(s, i + 1) ELSE i

\* the rest of null, true or false
parse_ident(s, i, ident, v) ==
    IF i + Len(ident) - 1 <= Len(s) /\ SubSeq(s, i, i + Len(ident) - 1) = ident
    THEN Parsed(v, i + Len(ident))
    ELSE NotParsed

U64Bits == 64
I32Max == 2147483647

RECURSIVE parse_digits(_, _, _, _)
\* the digits from index i on top of the significand n, for as long as
\* significand * 10 + digit is a u64: the number, how many digits, the index
\* after them, and whether a digit is left that would overflow
parse_digits(s, i, n, k) ==
    IF ~IsDigit(CharAt(s, i)) THEN [n |-> n, k |-> k, i |-> i, overflow |-> FALSE]
    ELSE Let1(Add(MulSmall(n, 10), NatOf(DigitValue(CharAt(s, i)))), LAMBDA m :
         IF BitLen(m) > U64Bits THEN [n |-> n, k |-> k, i |-> i, overflow |-> TRUE]
         ELSE parse_digits(s, i + 1, m, k + 1))

RECURSIVE skip_digits(_, _)
\* the index after the digits from index i
skip_digits(s, i) == IF IsDigit(CharAt(s, i)) THEN skip_digits(s, i + 1) ELSE i

\* static POW10: [f64; 309], the f64 of the literals 1e0 to 1e308
POW10 ==
    <<
    "3ff0000000000000", "4024000000000000", "4059000000000000", "408f400000000000",
    "40c3880000000000", "40f86a0000000000", "412e848000000000", "416312d000000000",
    "4197d78400000000", "41cdcd6500000000", "4202a05f20000000", "42374876e8000000",
    "426d1a94a2000000", "42a2309ce5400000", "42d6bcc41e900000", "430c6bf526340000",
    "4341c37937e08000", "4376345785d8a000", "43abc16d674ec800", "43e158e460913d00",
    "4415af1d78b58c40", "444b1ae4d6e2ef50", "4480f0cf064dd592", "44b52d02c7e14af6",
    "44ea784379d99db4", "45208b2a2c280291", "4554adf4b7320335", "4589d971e4fe8402",
    "45c027e72f1f1281", "45f431e0fae6d721", "46293e5939a08cea", "465f8def8808b024",
    "4693b8b5b5056e17", "46c8a6e32246c99c", "46fed09bead87c03", "4733426172c74d82",
    "476812f9cf7920e3", "479e17b84357691b", "47d2ced32a16a1b1", "48078287f49c4a1d",
    "483d6329f1c35ca5", "48725dfa371a19e7", "48a6f578c4e0a061", "48dcb2d6f618c879",
    "4911efc659cf7d4c", "49466bb7f0435c9e", "497c06a5ec5433c6", "49b18427b3b4a05c",
    "49e5e531a0a1c873", "4a1b5e7e08ca3a8f", "4a511b0ec57e649a", "4a8561d276ddfdc0",
    "4ababa4714957d30", "4af0b46c6cdd6e3e", "4b24e1878814c9ce", "4b5a19e96a19fc41",
    "4b905031e2503da9", "4bc4643e5ae44d13", "4bf97d4df19d6057", "4c2fdca16e04b86d",
    "4c63e9e4e4c2f344", "4c98e45e1df3b015", "4ccf1d75a5709c1b", "4d03726987666191",
    "4d384f03e93ff9f5", "4d6e62c4e38ff872", "4da2fdbb0e39fb47", "4dd7bd29d1c87a19",
    "4e0dac74463a989f", "4e428bc8abe49f64", "4e772ebad6ddc73d", "4eacfa698c95390c",
    "4ee21c81f7dd43a7", "4f16a3a275d49491", "4f4c4c8b1349b9b5", "4f81afd6ec0e1411",
    "4fb61bcca7119916", "4feba2bfd0d5ff5b", "502145b7e285bf99", "50559725db272f7f",
    "508afcef51f0fb5f", "50c0de1593369d1b", "50f5159af8044462", "512a5b01b605557b",
    "516078e111c3556d", "5194971956342ac8", "51c9bcdfabc1357a", "5200160bcb58c16c",
    "52341b8ebe2ef1c7", "526922726dbaae39", "529f6b0f092959c7", "52d3a2e965b9d81d",
    "53088ba3bf284e24", "533eae8caef261ad", "53732d17ed577d0c", "53a7f85de8ad5c4f",
    "53ddf67562d8b363", "5412ba095dc7701e", "5447688bb5394c25", "547d42aea2879f2e",
    "54b249ad2594c37d", "54e6dc186ef9f45c", "551c931e8ab87173", "5551dbf316b346e8",
    "558652efdc6018a2", "55bbe7abd3781eca", "55f170cb642b133f", "5625ccfe3d35d80e",
    "565b403dcc834e12", "569108269fd210cb", "56c54a3047c694fe", "56fa9cbc59b83a3d",
    "5730a1f5b8132466", "5764ca732617ed80", "5799fd0fef9de8e0", "57d03e29f5c2b18c",
    "58044db473335def", "583961219000356b", "586fb969f40042c5", "58a3d3e2388029bb",
    "58d8c8dac6a0342a", "590efb1178484135", "59435ceaeb2d28c1", "59783425a5f872f1",
    "59ae412f0f768fad", "59e2e8bd69aa19cc", "5a17a2ecc414a03f", "5a4d8ba7f519c84f",
    "5a827748f9301d32", "5ab7151b377c247e", "5aecda62055b2d9e", "5b22087d4358fc82",
    "5b568a9c942f3ba3", "5b8c2d43b93b0a8c", "5bc19c4a53c4e697", "5bf6035ce8b6203d",
    "5c2b843422e3a84d", "5c6132a095ce4930", "5c957f48bb41db7c", "5ccadf1aea12525b",
    "5d00cb70d24b7379", "5d34fe4d06de5057", "5d6a3de04895e46d", "5da066ac2d5daec4",
    "5dd4805738b51a75", "5e09a06d06e26112", "5e400444244d7cab", "5e7405552d60dbd6",
    "5ea906aa78b912cc", "5edf485516e7577f", "5f138d352e5096af", "5f48708279e4bc5b",
    "5f7e8ca3185deb72", "5fb317e5ef3ab327", "5fe7dddf6b095ff1", "601dd55745cbb7ed",
    "6052a5568b9f52f4", "60874eac2e8727b1", "60bd22573a28f19d", "60f2357684599702",
    "6126c2d4256ffcc3", "615c73892ecbfbf4", "6191c835bd3f7d78", "61c63a432c8f5cd6",
    "61fbc8d3f7b3340c", "62315d847ad00087", "6265b4e5998400a9", "629b221effe500d4",
    "62d0f5535fef2084", "630532a837eae8a5", "633a7f5245e5a2cf", "63708f936baf85c1",
    "63a4b378469b6732", "63d9e056584240fe", "64102c35f729689f", "6444374374f3c2c6",
    "647945145230b378", "64af965966bce056", "64e3bdf7e0360c36", "6518ad75d8438f43",
    "654ed8d34e547314", "6583478410f4c7ec", "65b819651531f9e8", "65ee1fbe5a7e7861",
    "6622d3d6f88f0b3d", "665788ccb6b2ce0c", "668d6affe45f818f", "66c262dfeebbb0f9",
    "66f6fb97ea6a9d38", "672cba7de5054486", "6761f48eaf234ad4", "679671b25aec1d89",
    "67cc0e1ef1a724eb", "680188d357087713", "6835eb082cca94d7", "686b65ca37fd3a0d",
    "68a11f9e62fe4448", "68d56785fbbdd55a", "690ac1677aad4ab1", "6940b8e0acac4eaf",
    "6974e718d7d7625a", "69aa20df0dcd3af1", "69e0548b68a044d6", "6a1469ae42c8560c",
    "6a498419d37a6b8f", "6a7fe52048590673", "6ab3ef342d37a408", "6ae8eb0138858d0a",
    "6b1f25c186a6f04c", "6b537798f4285630", "6b88557f31326bbb", "6bbe6adefd7f06aa",
    "6bf302cb5e6f642a", "6c27c37e360b3d35", "6c5db45dc38e0c82", "6c9290ba9a38c7d1",
    "6cc734e940c6f9c6", "6cfd022390f8b837", "6d3221563a9b7323", "6d66a9abc9424feb",
    "6d9c5416bb92e3e6", "6dd1b48e353bce70", "6e0621b1c28ac20c", "6e3baa1e332d728f",
    "6e714a52dffc6799", "6ea59ce797fb817f", "6edb04217dfa61df", "6f10e294eebc7d2c",
    "6f451b3a2a6b9c76", "6f7a6208b5068394", "6fb07d457124123d", "6fe49c96cd6d16cc",
    "7019c3bc80c85c7f", "70501a55d07d39cf", "708420eb449c8843", "70b9292615c3aa54",
    "70ef736f9b3494e9", "7123a825c100dd11", "7158922f31411456", "718eb6bafd91596b",
    "71c33234de7ad7e3", "71f7fec216198ddc", "722dfe729b9ff153", "7262bf07a143f6d4",
    "72976ec98994f489", "72cd4a7bebfa31ab", "73024e8d737c5f0b", "7336e230d05b76cd",
    "736c9abd04725481", "73a1e0b622c774d0", "73d658e3ab795204", "740bef1c9657a686",
    "74417571ddf6c814", "7475d2ce55747a18", "74ab4781ead1989e", "74e10cb132c2ff63",
    "75154fdd7f73bf3c", "754aa3d4df50af0b", "7580a6650b926d67", "75b4cffe4e7708c0",
    "75ea03fde214caf1", "7620427ead4cfed6", "7654531e58a03e8c", "768967e5eec84e2f",
    "76bfc1df6a7a61bb", "76f3d92ba28c7d15", "7728cf768b2f9c5a", "775f03542dfb8370",
    "779362149cbd3226", "77c83a99c3ec7eb0", "77fe494034e79e5c", "7832edc82110c2f9",
    "7867a93a2954f3b8", "789d9388b3aa30a5", "78d27c35704a5e67", "79071b42cc5cf601",
    "793ce2137f743382", "79720d4c2fa8a031", "79a6909f3b92c83d", "79dc34c70a777a4d",
    "7a11a0fc668aac70", "7a46093b802d578c", "7a7b8b8a6038ad6f", "7ab137367c236c65",
    "7ae585041b2c477f", "7b1ae64521f7595e", "7b50cfeb353a97db", "7b8503e602893dd2",
    "7bba44df832b8d46", "7bf06b0bb1fb384c", "7c2485ce9e7a065f", "7c59a742461887f6",
    "7c9008896bcf54fa", "7cc40aabc6c32a38", "7cf90d56b873f4c7", "7d2f50ac6690f1f8",
    "7d63926bc01a973b", "7d987706b0213d0a", "7dce94c85c298c4c", "7e031cfd3999f7b0",
    "7e37e43c8800759c", "7e6ddd4baa009303", "7ea2aa4f4a405be2", "7ed754e31cd072da",
    "7f0d2a1be4048f90", "7f423a516e82d9ba", "7f76c8e5ca239029", "7fac7b1f3cac7433",
    "7fe1ccf385ebc8a0"
    >>

NumberOutOfRange == [ok |-> FALSE, f |-> NaN]
RECURSIVE scale(_, _)
\* the loop of f64_from_parts: f times 10^exponent, in f64.  An exponent
\* within the table takes one step, one below it a division by 1e308 for
\* each turn, one above it is out of range unless f is 0.
scale(f, exponent) ==
    Let1(f64_arith(IF exponent >= 0 THEN "Multiply" ELSE "Divide", f,
                   POW10[(IF exponent >= 0 THEN Min(exponent, 308)
                          ELSE -Max(exponent, -308)) + 1]),
         LAMBDA g :
         IF exponent >= -308 /\ exponent <= 308
         THEN IF exponent >= 0 /\ g = Inf(FALSE) THEN NumberOutOfRange
              ELSE [ok |-> TRUE, f |-> g]
         ELSE IF IsZero(f) THEN [ok |-> TRUE, f |-> f]
         ELSE IF exponent >= 0 THEN NumberOutOfRange
         ELSE scale(g, exponent + 308))
\* the f64 of significand * 10^exponent, as serde_json computes it:
\* `significand as f64`, then times or by the power of ten
f64_from_parts(negative, significand, exponent) ==
    Let1(scale(f64_round(FALSE, significand, 0, FALSE), exponent), LAMBDA r :
         IF ~r.ok \/ ~negative THEN r ELSE [ok |-> TRUE, f |-> f64_neg(r.f)])
\* the parts of a number whose text ends before index i; float when the
\* text has a fraction, an exponent or an integer part over u64::MAX
FromParts(negative, significand, exponent, i, float) ==
    Parsed([j |-> "parts", negative |-> negative, significand |-> significand,
            exponent |-> exponent, float |-> float], i)

RECURSIVE parse_exponent_digits(_, _, _)
\* the digits of an exponent from index i on top of exp, an i32
parse_exponent_digits(s, i, exp) ==
    IF ~IsDigit(CharAt(s, i)) THEN [n |-> exp, i |-> i, overflow |-> FALSE]
    ELSE IF /\ exp >= I32Max \div 10
            /\ \/ exp > I32Max \div 10
               \/ DigitValue(CharAt(s, i)) > I32Max % 10
    THEN [n |-> exp, i |-> i + 1, overflow |-> TRUE]
    ELSE parse_exponent_digits(s, i + 1, exp * 10 + DigitValue(CharAt(s, i)))

\* i32::saturating_add and saturating_sub, of an exp that is not negative
saturating_add(a, exp) == IF a > 0 /\ exp > I32Max - a THEN I32Max ELSE a + exp
saturating_sub(a, exp) ==
    IF a < 0 /\ exp > (a + I32Max) + 1 THEN (-I32Max) - 1 ELSE a - exp

\* an exponent too large for an i32: out of range, or a zero
parse_exponent_overflow(s, i, negative, zero_significand, positive_exp) ==
    IF ~zero_significand /\ positive_exp THEN NotParsed
    ELSE Parsed(JNumber(Float(Zero(negative))), skip_digits(s, i))

\* the exponent, when an e or E is at index i: an optional sign and at
\* least one digit
parse_exponent(s, i, negative, significand, starting_exp, float) ==
    IF CharAt(s, i) \notin {"e", "E"}
    THEN FromParts(negative, significand, starting_exp, i, float)
    ELSE Let1(IF CharAt(s, i + 1) \in {"+", "-"} THEN i + 2 ELSE i + 1, LAMBDA first :
         IF ~IsDigit(CharAt(s, first)) THEN NotParsed
         ELSE Let1(parse_exponent_digits(s, first + 1, DigitValue(CharAt(s, first))),
                   LAMBDA exp :
              IF exp.overflow
              THEN parse_exponent_overflow(s, exp.i, negative, significand = <<>>,
                                           CharAt(s, i + 1) # "-")
              ELSE FromParts(negative, significand,
                             IF CharAt(s, i + 1) = "-"
                             THEN saturating_sub(starting_exp, exp.n)
                             ELSE saturating_add(starting_exp, exp.n),
                             exp.i, TRUE)))

\* the fraction, when a . is at index i: at least one digit, and the digits
\* that the significand has no room for are dropped (parse_decimal_overflow);
\* then the exponent
parse_decimal(s, i, negative, significand, exponent, long) ==
    Let1(IF CharAt(s, i) = "." THEN parse_digits(s, i + 1, significand, 0)
         ELSE [n |-> significand, k |-> 0, i |-> i, overflow |-> FALSE],
         LAMBDA d :
         IF CharAt(s, i) = "." /\ ~d.overflow /\ d.k = 0 THEN NotParsed
         ELSE parse_exponent(s, IF d.overflow THEN skip_digits(s, d.i) ELSE d.i,
                             negative, d.n, exponent - d.k,
                             long \/ CharAt(s, i) = "."))

\* the integer part from index i: 0 with no digit after it, or digits, of
\* which those from the first that would take the significand over u64::MAX
\* only count for the exponent (parse_long_integer); then the fraction
parse_integer(s, i, negative) ==
    IF ~IsDigit(CharAt(s, i)) \/ (CharAt(s, i) = "0" /\ IsDigit(CharAt(s, i + 1)))
    THEN NotParsed
    ELSE Let1(IF CharAt(s, i) = "0"
              THEN [n |-> <<>>, k |-> 1, i |-> i + 1, overflow |-> FALSE]
              ELSE parse_digits(s, i, <<>>, 0),
              LAMBDA d :
              Let1(IF d.overflow THEN skip_digits(s, d.i) ELSE d.i, LAMBDA j :
                   parse_decimal(s, j, negative, d.n, j - d.i, d.overflow)))

\* whether -significand is an i64 below 0
IsNegInt(significand) ==
    /\ significand # <<>>
    /\ (BitLen(significand) < U64Bits \/ significand = <<0, 0, 0, 0, 8>>)
\* a number from index i, after its sign: an integer is a u64 when it has no
\* sign, an i64 when it has one, and an f64 when it is -0 or below i64::MIN;
\* any other number is what f64_from_parts makes of its parts
parse_any_number(s, i, negative) ==
    Let1(parse_integer(s, i, negative), LAMBDA r :
         IF ~r.ok \/ r.v.j # "parts" THEN r
         ELSE IF ~r.v.float /\ ~negative
         THEN Parsed(JNumber(PosInt(r.v.significand)), r.i)
         ELSE IF ~r.v.float /\ IsNegInt(r.v.significand)
         THEN Parsed(JNumber(NegInt(r.v.significand)), r.i)
         ELSE Let1(f64_from_parts(negative, r.v.significand, r.v.exponent),
                   LAMBDA f :
                   IF f.ok THEN Parsed(JNumber(Float(f.f)), r.i) ELSE NotParsed))

\* the code of the four hex digits from index i, -1 when they are not there
decode_hex_escape(s, i) ==
    IF /\ i + 3 <= Len(s)
       /\ \A k \in 0..3 : IsHex(CharAt(s, i + k))
    THEN HexValue(CharAt(s, i)) * 4096 + HexValue(CharAt(s, i + 1)) * 256
         + HexValue(CharAt(s, i + 2)) * 16 + HexValue(CharAt(s, i + 3))
    ELSE -1

\* the character a \u escape at index i (its backslash) stands for, and how
\* many characters of the text it takes; none when the escape is not valid
parse_unicode(s, i) ==
    Let1(decode_hex_escape(s, i + 2), LAMBDA n :
         IF n = -1 THEN [ok |-> FALSE, c |-> "", len |-> 0]
         ELSE IF n >= 56320 /\ n <= 57343 THEN [ok |-> FALSE, c |-> "", len |-> 0]
         ELSE IF n >= 55296 /\ n <= 56319
         THEN IF /\ CharAt(s, i + 6) = "\\"
                 /\ CharAt(s, i + 7) = "u"
                 /\ decode_hex_escape(s, i + 8) >= 56320
                 /\ decode_hex_escape(s, i + 8) <= 57343
              THEN [ok |-> TRUE,
                    c |-> char_from_u32(65536 + (n - 55296) * 1024
                                        + (decode_hex_escape(s, i + 8) - 56320)),
                    len |-> 12]
              ELSE [ok |-> FALSE, c |-> "", len |-> 0]
         ELSE [ok |-> TRUE, c |-> char_from_u32(n), len |-> 6])

RECURSIVE parse_str(_, _, _)
\* the string whose characters start at index i, after the opening quote
parse_str(s, i, acc) ==
    IF CharAt(s, i) = "" THEN NotParsed
    ELSE IF CharAt(s, i) = "\"" THEN Parsed(JString(acc), i + 1)
    ELSE IF CharAt(s, i) \in {"\n", "\t", "\r"} THEN NotParsed
    ELSE IF CharAt(s, i) = "\f"
    THEN Let1(code_at(s, i), LAMBDA n :
              IF n < 32 THEN NotParsed
              ELSE parse_str(s, i + 7, acc \o char_from_u32(n)))
    ELSE IF CharAt(s, i) # "\\" THEN parse_str(s, i + 1, acc \o CharAt(s, i))
    ELSE IF CharAt(s, i + 1) \in {"\"", "\\", "/"}
    THEN parse_str(s, i + 2, acc \o CharAt(s, i + 1))
    ELSE IF CharAt(s, i + 1) = "n" THEN parse_str(s, i + 2, acc \o "\n")
    ELSE IF CharAt(s, i + 1) = "t" THEN parse_str(s, i + 2, acc \o "\t")
    ELSE IF CharAt(s, i + 1) = "r" THEN parse_str(s, i + 2, acc \o "\r")
    ELSE IF CharAt(s, i + 1) = "f" THEN parse_str(s, i + 2, acc \o char_from_u32(12))
    ELSE IF CharAt(s, i + 1) = "b" THEN parse_str(s, i + 2, acc \o char_from_u32(8))
    ELSE IF CharAt(s, i + 1) = "u"
    THEN Let1(parse_unicode(s, i), LAMBDA u :
              IF ~u.ok THEN NotParsed ELSE parse_str(s, i + u.len, acc \o u.c))
    ELSE NotParsed

\* Map::insert: a new key goes last, a known key keeps its place (the Map
\* that keeps insertion order; the crate's feature list is not in src/)
Map_insert(fields, k, v) ==
    IF \E n \in 1..Len(fields) : fields[n].k = k
    THEN [n \in 1..Len(fields) |->
              IF fields[n].k = k THEN [k |-> k, v |-> v] ELSE fields[n]]
    ELSE Append(fields, [k |-> k, v |-> v])

\* the nesting serde_json allows: remaining_depth starts at 128
RecursionLimit == 128

RECURSIVE parse_value(_, _, _), parse_seq(_, _, _, _), parse_map(_, _, _, _)
\* a value from index i, after whitespace; depth is the remaining depth
parse_value(s, i, depth) ==
    Let1(parse_whitespace(s, i), LAMBDA j :
         IF CharAt(s, j) = "n" THEN parse_ident(s, j, "null", JNull)
         ELSE IF CharAt(s, j) = "t" THEN parse_ident(s, j, "true", JBool(TRUE))
         ELSE IF CharAt(s, j) = "f" THEN parse_ident(s, j, "false", JBool(FALSE))
         ELSE IF CharAt(s, j) = "-" \/ IsDigit(CharAt(s, j))
         THEN parse_any_number(s, IF CharAt(s, j) = "-" THEN j + 1 ELSE j,
                               CharAt(s, j) = "-")
         ELSE IF CharAt(s, j) = "\"" THEN parse_str(s, j + 1, "")
         ELSE IF CharAt(s, j) = "["
         THEN IF depth - 1 = 0 THEN NotParsed
              ELSE Let1(parse_whitespace(s, j + 1), LAMBDA k :
                        IF CharAt(s, k) = "]" THEN Parsed(JArray(<<>>), k + 1)
                        ELSE parse_seq(s, k, depth - 1, <<>>))
         ELSE IF CharAt(s, j) = "{"
         THEN IF depth - 1 = 0 THEN NotParsed
              ELSE Let1(parse_whitespace(s, j + 1), LAMBDA k :
                        IF CharAt(s, k) = "}" THEN Parsed(JObject(<<>>), k + 1)
                        ELSE parse_map(s, k, depth - 1, <<>>))
         ELSE NotParsed)

\* the elements of an array from index i, the first character of one
parse_seq(s, i, depth, acc) ==
    Let1(parse_value(s, i, depth), LAMBDA r :
         IF ~r.ok THEN NotParsed
         ELSE Let1(parse_whitespace(s, r.i), LAMBDA j :
              IF CharAt(s, j) = "]" THEN Parsed(JArray(Append(acc, r.v)), j + 1)
              ELSE IF CharAt(s, j) # "," THEN NotParsed
              ELSE Let1(parse_whitespace(s, j + 1), LAMBDA k :
                   IF CharAt(s, k) = "]" THEN NotParsed
                   ELSE parse_seq(s, k, depth, Append(acc, r.v)))))

\* the entries of an object from index i, where a key has to start
parse_map(s, i, depth, acc) ==
    IF CharAt(s, i) # "\"" THEN NotParsed
    ELSE Let1(parse_str(s, i + 1, ""), LAMBDA key :
         IF ~key.ok THEN NotParsed
         ELSE Let1(parse_whitespace(s, key.i), LAMBDA c :
              IF CharAt(s, c) # ":" THEN NotParsed
              ELSE Let1(parse_value(s, c + 1, depth), LAMBDA r :
                   IF ~r.ok THEN NotParsed
                   ELSE Let1(parse_whitespace(s, r.i), LAMBDA j :
                        IF CharAt(s, j) = "}"
                        THEN Parsed(JObject(Map_insert(acc, key.v.s, r.v)), j + 1)
                        ELSE IF CharAt(s, j) # "," THEN NotParsed
                        ELSE Let1(parse_whitespace(s, j + 1), LAMBDA k :
                             IF CharAt(s, k) = "}" THEN NotParsed
                             ELSE parse_map(s, k, depth,
                                            Map_insert(acc, key.v.s, r.v)))))))

\* one value, then nothing but whitespace
serde_json_from_str(s) ==
    Let1(parse_value(s, 1, RecursionLimit), LAMBDA r :
         IF r.ok /\ parse_whitespace(s, r.i) > Len(s) THEN r ELSE NotParsed)

\* impl From<serde_json::Value> for Value.  A number that is a u64 becomes an
\* Int, any other a Float; an Int of the model is below 2^31.
RECURSIVE Value_from(_, _), Value_from_each(_, _, _, _)
Value_from(w, v) ==
    IF v.j = "null" THEN Some(w, Null)
    ELSE IF v.j = "bool" THEN Some(w, BoolV(v.b))
    ELSE IF v.j = "number"
    THEN IF as_u64(v.n) THEN Some(w, IntV(IntOf(v.n.n)))
         ELSE Some(w, FloatV(as_f64(v.n)))
    ELSE IF v.j = "string" THEN Some(w, StringV(v.s))
    ELSE Let1(Value_from_each(w, IF v.j = "array" THEN v.items
                                 ELSE [i \in 1..Len(v.fields) |-> v.fields[i].v],
                              1, <<>>),
              LAMBDA r :
              IF v.j = "array"
              THEN Some(Alloc(r.w, ListObj(r.val, None)), ListRef(NewAddr(r.w)))
              ELSE Some(Alloc(r.w, DictObj([i \in 1..Len(v.fields) |->
                                               Pair(v.fields[i].k, r.val[i])], None)),
                        DictRef(NewAddr(r.w))))

Value_from_each(w, vs, i, acc) ==
    IF i > Len(vs) THEN Some(w, acc)
    ELSE Let1(Value_from(w, vs[i]), LAMBDA r :
         Value_from_each(r.w, vs, i + 1, Append(acc, r.val)))

builtin_json(w, args) ==
    IF Len(args) # 1 THEN Panic(w, "json function expects exactly one argument")
    ELSE LET arg == args[1]
         IN  IF arg.tag # "string"
             THEN Err(w, BuiltinFunctionError("json function expects a string"))
             ELSE Let1(serde_json_from_str(arg.s), LAMBDA parsed :
                       IF ~parsed.ok
                       THEN Err(w, BuiltinFunctionError("failed to parse JSON"))
                       ELSE Value_from(w, parsed.v))

\* (f.implementation)(args): the builtins by name; any other Function is a
\* native function that returns Null.  Every invocation is recorded.
implementation(w, f, args) ==
    LET w1 == [w EXCEPT !.calls = Append(@, [name |-> f.name, args |-> args])]
    IN  IF f.name = "json" THEN builtin_json(w1, args)
        ELSE IF f.name = "get" THEN builtin_get(w1, args)
        ELSE IF f.name = "assoc" THEN builtin_assoc(w1, args)
        ELSE Some(w1, Null)

(***************************************************************************)
(* interpreter.rs: eval_expression.  Scope is a function from the bound    *)
(* names to their values.                                                  *)
(***************************************************************************)
RECURSIVE eval_expression(_, _, _, _), eval_each(_, _, _, _, _, _)

\* `.map(|e| eval_expression(..)).collect::<Result<Vec<_>>>()`: in order, to the first failure
eval_each(w, scope, es, this, i, acc) ==
    IF i > Len(es) THEN Some(w, acc)
    ELSE Let1(eval_expression(w, scope, es[i], this), LAMBDA r :
         IF r.st # "ok" THEN r
         ELSE eval_each(r.w, scope, es, this, i + 1, Append(acc, r.val)))

\* the operand of a typed operator: `eval_expression(..)?` then `as_<type>()`,
\* a value of another type is the error `otherwise`
eval_as(w, scope, e, this, type, otherwise) ==
    Let1(eval_expression(w, scope, e, this), LAMBDA r :
         IF r.st # "ok" THEN r
         ELSE IF ~as_type(r.val, type) THEN Err(r.w, otherwise)
         ELSE r)

\* x then y, each of the type: the pair of the two values
eval_pair(w, this, scope, x, y, type, otherwise) ==
    Let1(eval_as(w, scope, x, this, type, otherwise), LAMBDA rx :
         IF rx.st # "ok" THEN rx
         ELSE Let1(eval_as(rx.w, scope, y, this, type, otherwise), LAMBDA ry :
              IF ry.st # "ok" THEN ry
              ELSE Some(ry.w, <<rx.val, ry.val>>)))

eval_number_pair(w, this, scope, x, y) ==
    Let1(eval_pair(w, this, scope, x, y, "number", InvalidType("number")), LAMBDA p :
         IF p.st # "ok" THEN p ELSE Some(p.w, [i \in 1..2 |-> number_of(p.val[i])]))

\* a call that passes the current value whenever one more argument is accepted
eval_FunctionCall_eager_this(w, scope, name, args, this) ==
    IF name \notin DOMAIN scope THEN Err(w, FunctionNotFound(name))
    ELSE LET f == scope[name]
         IN  IF f.tag # "function" THEN Err(w, FunctionNotFound(name))
             ELSE LET arity == Len(args)
                      using_this == Contains(f.arities, arity + 1)
                  IN  IF ~using_this /\ ~Contains(f.arities, arity)
                      THEN Err(w, InvalidArity(name, arity, f.arities))
                      ELSE LET prefix == IF using_this THEN <<This>> ELSE <<>>
                           IN  Let1(eval_each(w, scope, prefix \o args, this, 1, <<>>),
                                    LAMBDA r :
                                    IF r.st # "ok" THEN r
                                    ELSE implementation(r.w, f, r.val))

\* a call that passes the current value after the explicit arguments
eval_FunctionCall_this_last(w, scope, name, args, this) ==
    IF name \notin DOMAIN scope THEN Err(w, FunctionNotFound(name))
    ELSE LET f == scope[name]
         IN  IF f.tag # "function" THEN Err(w, FunctionNotFound(name))
             ELSE LET arity == Len(args)
                      using_this == ~Contains(f.arities, arity)
                  IN  IF using_this /\ ~Contains(f.arities, arity + 1)
                      THEN Err(w, InvalidArity(name, arity, f.arities))
                      ELSE LET suffix == IF using_this THEN <<This>> ELSE <<>>
                           IN  Let1(eval_each(w, scope, args \o suffix, this, 1, <<>>),
                                    LAMBDA r :
                                    IF r.st # "ok" THEN r
                                    ELSE implementation(r.w, f, r.val))

eval_FunctionCall(w, scope, name, args, this) ==
    IF name \notin DOMAIN scope THEN Err(w, FunctionNotFound(name))
    ELSE LET f == scope[name]
         IN  IF f.tag # "function" THEN Err(w, FunctionNotFound(name))
             ELSE LET arity == Len(args)
                      using_this == ~Contains(f.arities, arity)
                  IN  IF using_this /\ ~Contains(f.arities, arity + 1)
                      THEN Err(w, InvalidArity(name, arity, f.arities))
                      ELSE LET prefix == IF using_this THEN <<This>> ELSE <<>>
                           IN  Let1(eval_each(w, scope, prefix \o args, this, 1, <<>>),
                                    LAMBDA r :
                                    IF r.st # "ok" THEN r
                                    ELSE implementation(r.w, f, r.val))

\* the arms Plus, Minus, Multiply and Divide: the operation on the two
\* numbers as f64; when x + y has no two numbers and no panic the two are
\* evaluated again, as strings that are joined
eval_binary(w, scope, e, this) ==
    Let1(eval_number_pair(w, this, scope, e.x, e.y), LAMBDA p :
         IF p.st = "ok"
         THEN Some(p.w, FloatV(f64_arith(e.kind, p.val[1], p.val[2])))
         ELSE IF p.st = "panic" \/ e.kind # "Plus" THEN p
         ELSE Let1(eval_pair(p.w, this, scope, e.x, e.y, "string",
                             InvalidTypes(<<"string", "number">>)),
                   LAMBDA s :
                   IF s.st # "ok" THEN s
                   ELSE Some(s.w, StringV(s.val[1].s \o s.val[2].s))))

\* an identifier that is bound to a function is evaluated as the call of
\* the function with no arguments
IsCall(scope, e) ==
    \/ e.kind = "FunctionCall"
    \/ /\ e.kind = "Identifier"
       /\ e.name \in DOMAIN scope
       /\ scope[e.name].tag = "function"
       /\ e.name = scope[e.name].name

eval_expression(w, scope, e, this) ==
    CASE e.kind = "This" -> Some(w, this)
      [] e.kind = "Literal" -> Some(w, e.v)
      [] e.kind \in {"Plus", "Minus", "Multiply", "Divide"} ->
            eval_binary(w, scope, e, this)
      [] e.kind = "UnaryMinus" ->
            Let1(eval_as(w, scope, e.x, this, "number", InvalidType("number")),
                 LAMBDA r :
                 IF r.st # "ok" THEN r ELSE Some(r.w, FloatV(f64_neg(number_of(r.val)))))
      [] e.kind = "And" ->
            Let1(eval_as(w, scope, e.x, this, "boolean", InvalidType("boolean")),
                 LAMBDA r :
                 IF r.st # "ok" THEN r
                 ELSE IF r.val.b THEN eval_expression(r.w, scope, e.y, this)
                 ELSE Some(r.w, BoolV(FALSE)))
      [] e.kind = "Or" ->
            Let1(eval_as(w, scope, e.x, this, "boolean", InvalidType("boolean")),
                 LAMBDA r :
                 IF r.st # "ok" THEN r
                 ELSE IF r.val.b THEN Some(r.w, BoolV(TRUE))
                 ELSE eval_expression(r.w, scope, e.y, this))
      [] e.kind = "List" ->
            Let1(eval_each(w, scope, e.items, this, 1, <<>>), LAMBDA r :
                 IF r.st # "ok" THEN r
                 ELSE Some(Alloc(r.w, ListObj(r.val, None)), ListRef(NewAddr(r.w))))
      [] e.kind = "Dict" -> Panic(w, "not yet implemented")
      [] e.kind = "Identifier" /\ ~IsCall(scope, e) ->
            IF e.name \in DOMAIN scope
            THEN IF scope[e.name].tag = "function"
                 THEN Panic(w, "assertion failed: name == name2")
                 ELSE Some(w, scope[e.name])
            ELSE Err(w, VariableNotFound(e.name))
      [] IsCall(scope, e) ->
            eval_FunctionCall(w, scope, e.name,
                              IF e.kind = "FunctionCall" THEN e.args ELSE <<>>, this)

(***************************************************************************)
(* interpreter.rs: Program.  The nested enum (an Open frame boxes the      *)
(* Program that was active before the descend) is the stack of its frames: *)
(* program[1] is the Closed frame, the last one is the active frame.       *)
(***************************************************************************)
Closed(initial, scope, commands) ==
    [open |-> FALSE, name |-> "", kv |-> NoKV,
     initial |-> initial, scope |-> scope, commands |-> commands]
Open(name, kv, initial, scope, commands) ==
    [open |-> TRUE, name |-> name, kv |-> kv,
     initial |-> initial, scope |-> scope, commands |-> commands]

Simple(command) == [kind |-> "Simple", command |-> command]
Group(name, enter_kv, commands, leave_kv) ==
    [kind |-> "Group", name |-> name, enter_kv |-> enter_kv,
     commands |-> commands, leave_kv |-> leave_kv]
CachedCommand(command, result) == [command |-> command, result |-> result]

Active(p) == p[Len(p)]
History(p) == SubSeq(p, 1, Len(p) - 1)

Program_value(p) ==
    LET commands == Active(p).commands
    IN  IF commands # <<>> THEN commands[Len(commands)].result ELSE Active(p).initial

Program_scope(p) == Active(p).scope

\* a push that writes over the last record of the frame when it has one
Program_push_over(p, command) ==
    [p EXCEPT ![Len(p)].commands =
         IF @ = <<>> THEN <<command>> ELSE [@ EXCEPT ![Len(@)] = command]]

Program_push(p, command) == [p EXCEPT ![Len(p)].commands = Append(@, command)]

\* a pop that leaves the last record in place
Program_pop_keep(p) == p

\* a pop that leaves the descend when the Open frame has no record
Program_pop_leave(p) ==
    IF Active(p).open /\ Active(p).commands = <<>> THEN History(p)
    ELSE [p EXCEPT ![Len(p)].commands =
              IF @ = <<>> THEN @ ELSE SubSeq(@, 1, Len(@) - 1)]

\* a pop that takes the last record of the parent frame when the Open frame
\* has none
Program_pop_parent(p) ==
    IF Active(p).open /\ Active(p).commands = <<>>
    THEN [p EXCEPT ![Len(p) - 1].commands =
              IF @ = <<>> THEN @ ELSE SubSeq(@, 1, Len(@) - 1)]
    ELSE [p EXCEPT ![Len(p)].commands =
              IF @ = <<>> THEN @ ELSE SubSeq(@, 1, Len(@) - 1)]

\* a pop that removes a record of a Closed frame only: inside a descend the
\* undone command stays recorded
Program_pop_closed_only(p) ==
    IF Active(p).open THEN p
    ELSE [p EXCEPT ![Len(p)].commands =
              IF @ = <<>> THEN @ ELSE SubSeq(@, 1, Len(@) - 1)]

Program_pop(p) ==
    [p EXCEPT ![Len(p)].commands = IF @ = <<>> THEN @ ELSE SubSeq(@, 1, Len(@) - 1)]

\* a status that lists the Open frames as the loop meets them, the innermost
\* first
Program_status_unreversed(p) ==
    LET open == SelectSeq(p, LAMBDA f : f.open)
    IN  [i \in 1..Len(open) |->
            open[Len(open) + 1 - i].name \o " (" \o
            (IF open[Len(open) + 1 - i].kv = NoKV THEN ""
             ELSE open[Len(open) + 1 - i].kv[1] \o ": " \o open[Len(open) + 1 - i].kv[2])
            \o ")"]

\* one entry per Open frame, the outermost first
Program_status(p) ==
    LET open == SelectSeq(p, LAMBDA f : f.open)
    IN  [i \in 1..Len(open) |->
            open[i].name \o " (" \o
            (IF open[i].kv = NoKV THEN "" ELSE open[i].kv[1] \o ": " \o open[i].kv[2])
            \o ")"]

(***************************************************************************)
(* interpreter.rs: Interpreter.  run and rerun return the world and the    *)
(* program they leave, and how they ended.                                 *)
(***************************************************************************)
Ran(w, st, err, p) == [w |-> w, st |-> st, err |-> err, program |-> p]

Interpreter_new(input) == <<Closed(StringV(input), builtin_functions, <<>>)>>

\* the generator ShiftLeft stores in its result: the iterator over the
\* container, mapped through the closure that replays `commands`
ReplayIter(owner, src, at, scope, commands) ==
    [kind |-> "replay", owner |-> owner, src |-> src,
     iter |-> [list |-> at, dict |-> at, index |-> 0],
     scope |-> scope, commands |-> commands]

\* an Expression run that records the command whatever the evaluation gave
run_Expression_always_push(w, p, command) ==
    Let1(eval_expression(w, Program_scope(p), command.expr, Program_value(p)),
         LAMBDA r :
         Ran(r.w, r.st, r.err, Program_push(p, CachedCommand(Simple(command), r.val))))

run_Expression(w, p, command) ==
    Let1(eval_expression(w, Program_scope(p), command.expr, Program_value(p)),
         LAMBDA r :
         IF r.st # "ok" THEN Ran(r.w, r.st, r.err, p)
         ELSE Ran(r.w, "ok", NoError,
                  Program_push(p, CachedCommand(Simple(command), r.val))))

\* a descend that enters the container even when it has no first element
run_ShiftRight_enter_empty(w, p, command) ==
    LET this == Program_value(p)
        scope == Program_scope(p)
    IN  IF this.tag = "list" /\ command.kv = NoKV
        THEN Let1(List_get(w, this.at, 0), LAMBDA first :
             IF first.st # "ok" THEN Ran(first.w, first.st, first.err, p)
             ELSE Ran(first.w, IF first.some THEN "ok" ELSE "err",
                      IF first.some THEN NoError ELSE ShiftRightEmptySequence,
                      Append(p, Open("list", NoKV, first.val, scope, <<>>))))
        ELSE IF this.tag = "dict"
        THEN Let1(Dict_get_first(w, this.at), LAMBDA first :
             LET kv == IF command.kv = NoKV THEN <<"k", "v">> ELSE command.kv
             IN  IF first.st # "ok" THEN Ran(first.w, first.st, first.err, p)
                 ELSE IF ~first.some
                 THEN Ran(first.w, "err", ShiftRightEmptySequence,
                          Append(p, Open("dict", kv, Null, scope, <<>>)))
                 ELSE Ran(first.w, "ok", NoError,
                          Append(p, Open("dict", kv, Null,
                                         (kv[2] :> first.val.v) @@
                                         (kv[1] :> StringV(first.val.k)) @@ scope,
                                         <<>>))))
        ELSE Ran(w, "panic", Abort("not yet implemented: invalid shift right"), p)

\* a descend on a Dict that writes the two bindings into the scope the
\* parent frame holds as well
run_ShiftRight_shared_scope(w, p, command) ==
    LET this == Program_value(p)
        scope == Program_scope(p)
    IN  IF this.tag = "list" /\ command.kv = NoKV
        THEN Let1(List_get(w, this.at, 0), LAMBDA first :
             IF first.st # "ok" THEN Ran(first.w, first.st, first.err, p)
             ELSE IF ~first.some THEN Ran(first.w, "err", ShiftRightEmptySequence, p)
             ELSE Ran(first.w, "ok", NoError,
                      Append(p, Open("list", NoKV, first.val, scope, <<>>))))
        ELSE IF this.tag = "dict"
        THEN Let1(Dict_get_first(w, this.at), LAMBDA first :
             LET kv == IF command.kv = NoKV THEN <<"k", "v">> ELSE command.kv
             IN  IF first.st # "ok" THEN Ran(first.w, first.st, first.err, p)
                 ELSE IF ~first.some THEN Ran(first.w, "err", ShiftRightEmptySequence, p)
                 ELSE LET bound == (kv[2] :> first.val.v) @@
                                   (kv[1] :> StringV(first.val.k)) @@ scope
                      IN  Ran(first.w, "ok", NoError,
                              Append([p EXCEPT ![Len(p)].scope = bound],
                                     Open("dict", kv, Null, bound, <<>>))))
        ELSE Ran(w, "panic", Abort("not yet implemented: invalid shift right"), p)

run_ShiftRight(w, p, command) ==
    LET this == Program_value(p)
        scope == Program_scope(p)
    IN  IF this.tag = "list" /\ command.kv = NoKV
        THEN Let1(List_get(w, this.at, 0), LAMBDA first :
             IF first.st # "ok" THEN Ran(first.w, first.st, first.err, p)
             ELSE IF ~first.some THEN Ran(first.w, "err", ShiftRightEmptySequence, p)
             ELSE Ran(first.w, "ok", NoError,
                      Append(p, Open("list", NoKV, first.val, scope, <<>>))))
        ELSE IF this.tag = "dict"
        THEN Let1(Dict_get_first(w, this.at), LAMBDA first :
             LET kv == IF command.kv = NoKV THEN <<"k", "v">> ELSE command.kv
             IN  IF first.st # "ok" THEN Ran(first.w, first.st, first.err, p)
                 ELSE IF ~first.some THEN Ran(first.w, "err", ShiftRightEmptySequence, p)
                 ELSE Ran(first.w, "ok", NoError,
                          Append(p, Open("dict", kv, Null,
                                         (kv[2] :> first.val.v) @@
                                         (kv[1] :> StringV(first.val.k)) @@ scope,
                                         <<>>))))
        ELSE Ran(w, "panic", Abort("not yet implemented: invalid shift right"), p)

\* an ascend that does nothing, and reports nothing, outside a descend
run_ShiftLeft_ignore_closed(w, p, command) ==
    IF ~Active(p).open THEN Ran(w, "ok", NoError, p)
    ELSE LET frame == Active(p)
             history == History(p)
             this == Program_value(history)
         IN  IF this.tag \notin {"list", "dict"}
             THEN Ran(w, "panic",
                      Abort("unreachable: shifting left when last value is non sequence"), p)
             ELSE IF frame.kv # NoKV
             THEN Ran(w, "panic", Abort("not yet implemented"), p)
             ELSE IF command.leave_kv # NoKV
             THEN Ran(w, "panic", Abort("not yet implemented"), p)
             ELSE LET commands == [i \in 1..Len(frame.commands) |->
                                       frame.commands[i].command]
                      iterable == ReplayIter(NewAddr(w), this.tag, this.at,
                                             frame.scope, commands)
                      result == ListRef(NewAddr(w))
                  IN  Ran(Alloc(w, ListObj(<<>>, iterable)), "ok", NoError,
                          Program_push(history,
                              CachedCommand(Group(frame.name, frame.kv, commands,
                                                  command.leave_kv),
                                            result)))

\* an ascend that leaves the records made inside the descend in the parent
\* frame, under the Group record
run_ShiftLeft_flatten(w, p, command) ==
    IF ~Active(p).open THEN Ran(w, "err", ShiftLeftNotInShift, p)
    ELSE LET frame == Active(p)
             history == History(p)
             this == Program_value(history)
         IN  IF this.tag \notin {"list", "dict"}
             THEN Ran(w, "panic",
                      Abort("unreachable: shifting left when last value is non sequence"), p)
             ELSE IF frame.kv # NoKV
             THEN Ran(w, "panic", Abort("not yet implemented"), p)
             ELSE IF command.leave_kv # NoKV
             THEN Ran(w, "panic", Abort("not yet implemented"), p)
             ELSE LET commands == [i \in 1..Len(frame.commands) |->
                                       frame.commands[i].command]
                      iterable == ReplayIter(NewAddr(w), this.tag, this.at,
                                             frame.scope, commands)
                      result == ListRef(NewAddr(w))
                      top == Active(history)
                      kept == [history EXCEPT ![Len(history)] =
                                  [top EXCEPT !.commands = top.commands \o frame.commands]]
                  IN  Ran(Alloc(w, ListObj(<<>>, iterable)), "ok", NoError,
                          Program_push(kept,
                              CachedCommand(Group(frame.name, frame.kv, commands,
                                                  command.leave_kv),
                                            result)))

run_ShiftLeft(w, p, command) ==
    IF ~Active(p).open THEN Ran(w, "err", ShiftLeftNotInShift, p)
    ELSE LET frame == Active(p)
             history == History(p)
             this == Program_value(history)
         IN  IF this.tag \notin {"list", "dict"}
             THEN Ran(w, "panic",
                      Abort("unreachable: shifting left when last value is non sequence"), p)
             ELSE IF frame.kv # NoKV
             THEN Ran(w, "panic", Abort("not yet implemented"), p)
             ELSE IF command.leave_kv # NoKV
             THEN Ran(w, "panic", Abort("not yet implemented"), p)
             ELSE LET commands == [i \in 1..Len(frame.commands) |->
                                       frame.commands[i].command]
                      iterable == ReplayIter(NewAddr(w), this.tag, this.at,
                                             frame.scope, commands)
                      result == ListRef(NewAddr(w))
                  IN  Ran(Alloc(w, ListObj(<<>>, iterable)), "ok", NoError,
                          Program_push(history,
                              CachedCommand(Group(frame.name, frame.kv, commands,
                                                  command.leave_kv),
                                            result)))

RECURSIVE Interpreter_rerun(_, _, _), rerun_each(_, _, _, _)

Interpreter_run(w, p, command) ==
    IF command.kind = "Expression" THEN run_Expression(w, p, command)
    ELSE IF command.kind = "ShiftRight" THEN run_ShiftRight(w, p, command)
    ELSE run_ShiftLeft(w, p, command)

\* `for command in commands { self.rerun(command)? }`
rerun_each(w, p, commands, i) ==
    IF i > Len(commands) THEN Ran(w, "ok", NoError, p)
    ELSE Let1(Interpreter_rerun(w, p, commands[i]), LAMBDA r :
         IF r.st # "ok" THEN r ELSE rerun_each(r.w, r.program, commands, i + 1))

Interpreter_rerun(w, p, command) ==
    IF command.kind = "Simple" THEN Interpreter_run(w, p, command.command)
    ELSE Let1(Interpreter_run(w, p, ShiftRight(command.enter_kv)), LAMBDA r1 :
         IF r1.st # "ok" THEN r1
         ELSE Let1(rerun_each(r1.w, r1.program, command.commands, 1), LAMBDA r2 :
              IF r2.st # "ok" THEN r2
              ELSE Interpreter_run(r2.w, r2.program, ShiftLeft(command.leave_kv))))

Interpreter_undo(p) == Program_pop(p)

\* the closure of ShiftLeft: a fresh Closed frame on the element, the
\* recorded commands rerun on it, its final value
replay(w, it, e) ==
    Let1(rerun_each([w EXCEPT !.replays =
                         Append(@, [owner |-> it.owner, index |-> it.iter.index])],
                    <<Closed(e, it.scope, <<>>)>>, it.commands, 1),
         LAMBDA r :
         IF r.st # "ok" THEN Ret(r.w, r.st, FALSE, Null, r.err)
         ELSE Some(r.w, Program_value(r.program)))

\* next() of the mapped iterator: the element of the container (a Dict's
\* pair as the List [key, value]), then the closure on it
ReplayNext(w, it) ==
    Let1(IF it.src = "list" THEN ListIter_next(w, it.iter)
         ELSE DictIter_next(w, it.iter),
         LAMBDA inner :
         LET it1 == [it EXCEPT !.iter = inner.it]
             r == inner.r
         IN  IF r.st # "ok" \/ ~r.some THEN [r |-> r, it |-> it1]
             ELSE IF it.src = "list" THEN [r |-> replay(r.w, it, r.val), it |-> it1]
             ELSE [r |-> replay(Alloc(r.w, ListObj(<<StringV(r.val.k), r.val.v>>, None)),
                                it, ListRef(NewAddr(r.w))),
                   it |-> it1])

(***************************************************************************)
(* The history variables: what the last operation was and how it ended.    *)
(***************************************************************************)
NoCommand == [kind |-> "none"]

\* what the prompt after an operation did: the heap it found, how its sample
\* ended and what it took from the generators; NoPrompt where no prompt
\* follows
NoPrompt ==
    [shown |-> FALSE, found |-> <<>>, st |-> "ok", err |-> NoError, pulls |-> 0,
     replays |-> <<>>]
Prompted(found, s) ==
    [shown |-> TRUE, found |-> found, st |-> s.st, err |-> s.err,
     pulls |-> s.w.pulls, replays |-> s.w.replays]

Op(op, cmd, n, key, w, st, err, some, val) ==
    [op |-> op, cmd |-> cmd, n |-> n, key |-> key,
     st |-> st, err |-> err, some |-> some, val |-> val,
     pulls |-> w.pulls, calls |-> w.calls, replays |-> w.replays,
     prompt |-> NoPrompt]

NoOp == Op("none", NoCommand, 0, "", World(<<>>), "ok", NoError, FALSE, Null)

Snapshot == [program |-> program, heap |-> heap, entered |-> entered]

\* the heap as the last operation left it, before the prompt that followed
Left == IF last.prompt.shown THEN last.prompt.found ELSE heap

Record(op) ==
    /\ steps' = steps + 1
    /\ last' = op
    /\ prev' = last
    /\ before' = Snapshot
    /\ before2' = before
    /\ entered' = IF op.op = "run" /\ op.st = "ok" /\ op.cmd.kind = "ShiftRight"
                  THEN Append(entered, program)
                  ELSE IF op.op = "run" /\ op.st = "ok" /\ op.cmd.kind = "ShiftLeft"
                  THEN SubSeq(entered, 1, Len(entered) - 1)
                  ELSE entered

(***************************************************************************)
(* The interpreter driven by its host (main.rs run_prompt): a line is a    *)
(* command or a directive, and the prompt follows every line that does not *)
(* end the session.  The prompt before the first line samples the String   *)
(* the interpreter starts with, which realizes nothing.                    *)
(***************************************************************************)
cJson == Expression(FunctionCall("json", <<>>))
cGet(n) == Expression(FunctionCall("get", <<Literal(IntV(n))>>))
cGetKey(k) == Expression(FunctionCall("get", <<Literal(StringV(k))>>))
cAssoc == Expression(FunctionCall("assoc", <<Literal(IntV(0)), Literal(IntV(9))>>))
cNoFunction == Expression(FunctionCall("print", <<>>))
cNoVariable == Expression(Identifier("x"))
cArity == Expression(FunctionCall("get", <<>>))
cMinus == Expression(Minus(This, Literal(IntV(1))))
cPlus == Expression(Plus(This, Literal(StringV("x"))))
cList == Expression(ListExpr(<<This, This>>))
cThis == Expression(This)
cDict == Expression(DictExpr)
cShiftRight == ShiftRight(NoKV)
cShiftRightKV == ShiftRight(<<"k", "v">>)
cShiftRightNames == ShiftRight(<<"key", "x">>)
cShiftRightSame == ShiftRight(<<"x", "x">>)
cShiftLeft == ShiftLeft(NoKV)
cShiftLeftKV == ShiftLeft(<<Identifier("k"), Identifier("v")>>)

Seeds == {"[1, 2, 3, 4]", "{\"a\":1,\"b\":2}", "[]", "{}", "5"}
Commands ==
    {cJson, cGet(1), cGetKey("a"), cNoFunction, cNoVariable, cArity, cMinus, cPlus,
     cList, cThis, cShiftRight, cShiftRightKV, cShiftRightNames, cShiftRightSame,
     cShiftLeft, cShiftLeftKV}

LazySeeds == {"[[1],[],[3]]", "[[1],2]", "[[1],[],[3],[],[5]]"}
LazyCommands == {cJson, cGet(0), cGet(1), cShiftRight, cShiftLeft}

InitWith(seeds) ==
    /\ seed \in seeds
    /\ program = Interpreter_new(seed)
    /\ heap = <<>>
    /\ pc = "running"
    /\ steps = 0
    /\ last = NoOp
    /\ prev = NoOp
    /\ entered = <<>>
    /\ taken = None
    /\ before = [program |-> Interpreter_new(seed), heap |-> <<>>, entered |-> <<>>]
    /\ before2 = [program |-> Interpreter_new(seed), heap |-> <<>>, entered |-> <<>>]

\* main.rs prompt: interpreter.value().sample(), whose error is printed
prompt(w, p) == Value_sample(w, Program_value(p))

\* a line that is a command: interpreter.run(command), whose error is
\* printed, then the prompt; a panic ends the process before the prompt
Run(command, max) ==
    /\ pc = "running"
    /\ steps < max
    /\ Let1(Interpreter_run(World(heap), program, command), LAMBDA r :
            /\ program' = r.program
            /\ IF r.st = "panic"
               THEN /\ heap' = r.w.heap
                    /\ pc' = "aborted"
                    /\ Record(Op("run", command, 0, "", r.w, r.st, r.err, FALSE, Null))
               ELSE Let1(prompt(World(r.w.heap), r.program), LAMBDA s :
                         /\ heap' = s.w.heap
                         /\ pc' = IF s.st = "panic" THEN "aborted" ELSE pc
                         /\ Record([Op("run", command, 0, "", r.w, r.st, r.err,
                                       FALSE, Null)
                                        EXCEPT !.prompt = Prompted(r.w.heap, s)])))
    /\ UNCHANGED <<seed, taken>>

\* the undo directive, then the prompt
Undo(max) ==
    /\ pc = "running"
    /\ steps < max
    /\ program' = Interpreter_undo(program)
    /\ Let1(prompt(World(heap), Interpreter_undo(program)), LAMBDA s :
            /\ heap' = s.w.heap
            /\ pc' = IF s.st = "panic" THEN "aborted" ELSE pc
            /\ Record([Op("undo", NoCommand, 0, "", World(heap), "ok", NoError,
                          FALSE, Null)
                           EXCEPT !.prompt = Prompted(heap, s)]))
    /\ UNCHANGED <<seed, taken>>

\* a line that leaves the interpreter alone, an unknown directive or a line
\* that does not parse: only the prompt follows
Sample(max) ==
    /\ pc = "running"
    /\ steps < max
    /\ Let1(prompt(World(heap), program), LAMBDA r :
            /\ heap' = r.w.heap
            /\ pc' = IF r.st = "panic" THEN "aborted" ELSE pc
            /\ Record([Op("sample", NoCommand, 0, "", r.w, r.st, r.err, FALSE, Null)
                           EXCEPT !.prompt = Prompted(heap, r)]))
    /\ UNCHANGED <<program, seed, taken>>

\* the done directive: interpreter.value().realize(), then the loop ends
Done(max) ==
    /\ pc = "running"
    /\ steps < max
    /\ Let1(Value_realize(World(heap), Program_value(program)), LAMBDA r :
            /\ heap' = r.w.heap
            /\ pc' = IF r.st = "panic" THEN "aborted" ELSE "exited"
            /\ Record(Op("done", NoCommand, 0, "", r.w, r.st, r.err, FALSE, Null)))
    /\ UNCHANGED <<program, seed, taken>>

\* the exit, quit and q directives and the end of the input: the loop ends
\* with nothing realized
Exit(max) ==
    /\ pc = "running"
    /\ steps < max
    /\ pc' = "exited"
    /\ Record(Op("exit", NoCommand, 0, "", World(heap), "ok", NoError, FALSE, Null))
    /\ UNCHANGED <<program, heap, seed, taken>>

Init == InitWith(Seeds)

Next ==
    \/ \E command \in Commands : Run(command, MaxSteps)
    \/ Undo(MaxSteps)
    \/ Sample(MaxSteps)
    \/ Done(MaxSteps)
    \/ Exit(MaxSteps)

Spec == Init /\ [][Next]_vars

\* the same host on a list of lists, with the commands that query a lazy result
InitLazy == InitWith(LazySeeds)

NextLazy ==
    \/ \E command \in LazyCommands : Run(command, MaxLazySteps)
    \/ Undo(MaxLazySteps)
    \/ Sample(MaxLazySteps)
    \/ Exit(MaxLazySteps)

SpecLazy == InitLazy /\ [][NextLazy]_vars

\* the same host on lists of lists of numbers, descending twice; in the
\* last seed the inner list holds two elements next to each other on which
\* `this - 1` fails
NestSeeds == {"[[1,2],[3]]", "[[1],[],[3]]", "[[1,[],[],2]]"}
NestCommands == {cJson, cMinus, cShiftRight, cShiftLeft}

InitNest == InitWith(NestSeeds)

NextNest ==
    \/ \E command \in NestCommands : Run(command, MaxNestSteps)
    \/ Undo(MaxNestSteps)
    \/ Sample(MaxNestSteps)
    \/ Exit(MaxNestSteps)

SpecNest == InitNest /\ [][NextNest]_vars

\* the same host with the done directive on a lazy List taken one iteration
\* of realize_all's loop at a time: `self.rest.take()`, then one step for each
\* `for elem in rest { elems.push(elem?) }`, which ends when the generator
\* gives no item or an error
DoneSeeds == {"[1, 2, 3, 4]", "[[1],[],[3]]"}
DoneCommands == {cJson, cMinus, cGet(0), cShiftRight, cShiftLeft}

InitDone == InitWith(DoneSeeds)

\* the done directive up to the loop of List::realize_all; a value that is
\* not a List with a pending generator is realized at once
DoneStart(max) ==
    /\ pc = "running"
    /\ steps < max
    /\ IF /\ Program_value(program).tag = "list"
          /\ heap[Program_value(program).at].rest.kind # "none"
       THEN /\ taken' = heap[Program_value(program).at].rest
            /\ heap' = [heap EXCEPT ![Program_value(program).at].rest = None]
            /\ pc' = "realizing"
            /\ Record(Op("done", NoCommand, 0, "", World(heap), "ok", NoError,
                         FALSE, Null))
       ELSE Let1(Value_realize(World(heap), Program_value(program)), LAMBDA r :
                 /\ heap' = r.w.heap
                 /\ pc' = IF r.st = "panic" THEN "aborted" ELSE "exited"
                 /\ taken' = taken
                 /\ Record(Op("done", NoCommand, 0, "", r.w, r.st, r.err, FALSE, Null)))
    /\ UNCHANGED <<program, seed>>

\* one iteration of the loop: the next item of the generator taken out is
\* pushed; no item ends the loop, an error returns from it, and either way
\* the generator is dropped and the directive ends the session
DonePull ==
    /\ pc = "realizing"
    /\ Len(heap[Program_value(program).at].elements) < MaxRealized
    /\ \E nx \in {IterNext(World(heap), taken)} :
            /\ heap' = IF nx.r.st = "ok" /\ nx.r.some
                       THEN [nx.r.w.heap EXCEPT
                                 ![Program_value(program).at].elements =
                                     Append(@, nx.r.val)]
                       ELSE nx.r.w.heap
            /\ taken' = IF nx.r.st = "ok" /\ nx.r.some THEN nx.it ELSE None
            /\ pc' = IF nx.r.st = "panic" THEN "aborted"
                     ELSE IF nx.r.st = "ok" /\ nx.r.some THEN "realizing"
                     ELSE "exited"
            /\ Record(Op("pull", NoCommand, 0, "", nx.r.w, nx.r.st, nx.r.err,
                         nx.r.some, nx.r.val))
    /\ UNCHANGED <<program, seed>>

NextDone ==
    \/ \E command \in DoneCommands : Run(command, MaxDoneSteps)
    \/ Undo(MaxDoneSteps)
    \/ DoneStart(MaxDoneSteps)
    \/ DonePull
    \/ Exit(MaxDoneSteps)

\* a step of the loop, told by the guard of DonePull and the step counter:
\* under NextDone the steps that satisfy it are the steps of DonePull, and
\* it is enabled exactly when DonePull is
LoopStep ==
    /\ pc = "realizing"
    /\ Len(heap[Program_value(program).at].elements) < MaxRealized
    /\ steps' = steps + 1

\* the loop of realize_all runs without waiting for input: once entered it
\* keeps taking steps while it can
SpecDone == InitDone /\ [][NextDone]_vars /\ WF_steps(LoopStep)

(***************************************************************************)
(* The containers on their own: one List or one Dict at address 1, built   *)
(* with a realized prefix and a counting stub generator, and queried.      *)
(***************************************************************************)
SeqsUpTo(S, n) == UNION {[1..k -> S] : k \in 0..n}

\* the container under test is the first value allocated
DataAt == NewAddr(World(<<>>))
Keys == {"a", "b", "c"}

ListItems == {ItemOk(IntV(1)), ItemOk(IntV(2)), ItemErr}
DictItems == {ItemOk(Pair("a", IntV(1))), ItemOk(Pair("b", IntV(2))),
              ItemOk(Pair("c", IntV(3))), ItemErr}

DataLists ==
    {ListObj(elements, rest) :
        elements \in {<<>>, <<IntV(0)>>},
        rest \in {None} \cup {Stub(items) : items \in SeqsUpTo(ListItems, MaxPending)}}

DataDicts ==
    {DictObj(elements, rest) :
        elements \in {<<>>, <<Pair("a", IntV(0))>>},
        rest \in {None} \cup {Stub(items) : items \in SeqsUpTo(DictItems, MaxPending)}}

InitData ==
    /\ seed \in DataLists \cup DataDicts
    /\ heap = <<seed>>
    /\ program = <<>>
    /\ pc = "running"
    /\ steps = 0
    /\ last = NoOp
    /\ prev = NoOp
    /\ entered = <<>>
    /\ taken = None
    /\ before = [program |-> <<>>, heap |-> <<seed>>, entered |-> <<>>]
    /\ before2 = [program |-> <<>>, heap |-> <<seed>>, entered |-> <<>>]

\* a query on the container: its result and the heap it leaves
Query(kind, op, n, key, r) ==
    /\ pc = "running"
    /\ steps < MaxDataSteps
    /\ heap[DataAt].kind = kind
    /\ heap' = r.w.heap
    /\ Record(Op(op, NoCommand, n, key, r.w, r.st, r.err, r.some, r.val))
    /\ UNCHANGED <<program, pc, seed, taken>>

DataList_get(n) == Query("list", "List_get", n, "", List_get(World(heap), DataAt, n))
DataList_realize_all ==
    Query("list", "List_realize_all", 0, "", List_realize_all(World(heap), DataAt))
DataList_sample ==
    Query("list", "sample", 0, "", Value_sample(World(heap), ListRef(DataAt)))
DataDict_get(key) == Query("dict", "Dict_get", 0, key, Dict_get(World(heap), DataAt, key))
DataDict_get_nth(n) ==
    Query("dict", "Dict_get_nth", n, "", Dict_get_nth(World(heap), DataAt, n))
DataDict_get_first ==
    Query("dict", "Dict_get_first", 0, "", Dict_get_first(World(heap), DataAt))
DataDict_realize_all ==
    Query("dict", "Dict_realize_all", 0, "", Dict_realize_all(World(heap), DataAt))
DataDict_sample ==
    Query("dict", "sample", 0, "", Value_sample(World(heap), DictRef(DataAt)))

NextData ==
    \/ \E n \in 0..MaxPending : DataList_get(n)
    \/ DataList_realize_all
    \/ DataList_sample
    \/ \E key \in Keys : DataDict_get(key)
    \/ \E n \in 0..MaxPending : DataDict_get_nth(n)
    \/ DataDict_get_first
    \/ DataDict_realize_all
    \/ DataDict_sample

SpecData == InitData /\ [][NextData]_vars

(***************************************************************************)
(* The builtins get and assoc applied to the same containers, between      *)
(* index lookups that realize a part of them.                              *)
(***************************************************************************)
AssocValue == IntV(99)
DataList_assoc(n) ==
    Query("list", "List_assoc", n, "",
          builtin_assoc(World(heap), <<ListRef(DataAt), IntV(n), AssocValue>>))
DataDict_assoc(key) ==
    Query("dict", "Dict_assoc", 0, key,
          builtin_assoc(World(heap), <<DictRef(DataAt), StringV(key), AssocValue>>))
DataDict_builtin_get(key) ==
    Query("dict", "builtin_get", 0, key,
          builtin_get(World(heap), <<DictRef(DataAt), StringV(key)>>))

NextBuiltin ==
    \/ \E n \in 0..MaxPending : DataList_assoc(n)
    \/ \E key \in Keys : DataDict_assoc(key)
    \/ \E key \in Keys : DataDict_builtin_get(key)
    \/ \E n \in 0..MaxPending : DataList_get(n)
    \/ \E n \in 0..MaxPending : DataDict_get_nth(n)

SpecBuiltin == InitData /\ [][NextBuiltin]_vars

(***************************************************************************)
(* Value::sample on containers whose generators never fail and give up to  *)
(* MaxAvailable items: a List of numbers, a Dict with distinct keys, and a *)
(* List that holds such a List and such a Dict.                            *)
(***************************************************************************)
\* a generator of n numbers, and one of n pairs with the keys k1, k2, ...
Numbers(n) == Stub([i \in 1..n |-> ItemOk(IntV(i))])
Pairs(n) == Stub([i \in 1..n |-> ItemOk(Pair("k" \o ToString(i), IntV(i)))])

SampleHeaps ==
    {<<ListObj(elements, Numbers(n))>> :
        elements \in {<<>>, <<IntV(0)>>}, n \in 0..MaxAvailable}
    \cup {<<DictObj(elements, Pairs(n))>> :
        elements \in {<<>>, <<Pair("a", IntV(0))>>}, n \in 0..MaxAvailable}
    \cup {<<ListObj(<<>>, Stub(<<ItemOk(ListRef(DataAt + 1)), ItemOk(DictRef(DataAt + 2))>>)),
            ListObj(<<>>, Numbers(n)), DictObj(<<>>, Pairs(m))>> :
        n \in 0..MaxAvailable, m \in 0..MaxAvailable}

InitSample ==
    /\ seed \in SampleHeaps
    /\ heap = seed
    /\ program = <<>>
    /\ pc = "running"
    /\ steps = 0
    /\ last = NoOp
    /\ prev = NoOp
    /\ entered = <<>>
    /\ taken = None
    /\ before = [program |-> <<>>, heap |-> seed, entered |-> <<>>]
    /\ before2 = [program |-> <<>>, heap |-> seed, entered |-> <<>>]

NextSample ==
    \/ DataList_sample
    \/ DataDict_sample
    \/ DataList_get(SampleSize)
    \/ DataDict_get_nth(SampleSize)

SpecSample == InitSample /\ [][NextSample]_vars

(***************************************************************************)
(* eval_expression on its own: a scope with the builtins, two native       *)
(* functions f (arities 1 and 2) and g (arity 2) and a variable x; the     *)
(* current value drawn from EvalThis; the heap holds the List [1,2,3,4].   *)
(***************************************************************************)
EvalHeap == <<ListObj(<<IntV(1), IntV(2), IntV(3), IntV(4)>>, None)>>
EvalThis == {ListRef(1), IntV(5), StringV("s")}
EvalScope ==
    [json |-> Function("json", <<1>>),
     get |-> Function("get", <<2>>),
     assoc |-> Function("assoc", <<3>>),
     f |-> Function("f", <<1, 2>>),
     g |-> Function("g", <<2>>),
     x |-> IntV(7)]

Lit(n) == Literal(IntV(n))
EvalExpressions ==
    {FunctionCall("f", <<>>),
     FunctionCall("f", <<Lit(1)>>),
     FunctionCall("f", <<Lit(2)>>),
     FunctionCall("f", <<Lit(1), Lit(2)>>),
     FunctionCall("f", <<Lit(1), Lit(2), Lit(3)>>),
     FunctionCall("g", <<>>),
     FunctionCall("g", <<Lit(1)>>),
     FunctionCall("g", <<This, Lit(1)>>),
     FunctionCall("g", <<FunctionCall("f", <<Lit(1)>>)>>),
     FunctionCall("g", <<FunctionCall("f", <<Lit(1)>>), FunctionCall("f", <<Lit(2)>>)>>),
     FunctionCall("g", <<FunctionCall("print", <<>>), FunctionCall("f", <<Lit(1)>>)>>),
     FunctionCall("g", <<FunctionCall("f", <<Lit(1)>>), FunctionCall("print", <<>>)>>),
     FunctionCall("get", <<Lit(1)>>),
     FunctionCall("get", <<>>),
     FunctionCall("x", <<>>),
     FunctionCall("print", <<Lit(1)>>)}

InitEval ==
    /\ seed \in EvalThis
    /\ heap = EvalHeap
    /\ program = <<Closed(seed, EvalScope, <<>>)>>
    /\ pc = "running"
    /\ steps = 0
    /\ last = NoOp
    /\ prev = NoOp
    /\ entered = <<>>
    /\ taken = None
    /\ before = [program |-> <<>>, heap |-> EvalHeap, entered |-> <<>>]
    /\ before2 = [program |-> <<>>, heap |-> EvalHeap, entered |-> <<>>]

Evaluate(e) ==
    /\ pc = "running"
    /\ steps < MaxEvalSteps
    /\ Let1(eval_expression(World(heap), Program_scope(program), e,
                            Program_value(program)),
            LAMBDA r :
            /\ heap' = r.w.heap
            /\ pc' = IF r.st = "panic" THEN "aborted" ELSE pc
            /\ Record(Op("eval", Expression(e), 0, "", r.w, r.st, r.err, r.some, r.val)))
    /\ UNCHANGED <<program, seed, taken>>

NextEval == \E e \in EvalExpressions : Evaluate(e)

SpecEval == InitEval /\ [][NextEval]_vars

(***************************************************************************)
(* eval_expression on And, Or and Identifier: the scope has in addition a  *)
(* native function h that takes no argument; the current value is a Bool   *)
(* or a number.                                                            *)
(***************************************************************************)
ExprThis == {BoolV(TRUE), BoolV(FALSE), IntV(5)}
ExprScope == ("h" :> Function("h", <<0>>)) @@ EvalScope
ExprOperands == {Literal(BoolV(TRUE)), Literal(BoolV(FALSE)), Lit(5), This}
ExprNames == {"f", "g", "h", "x", "get", "nope"}
ExprNumbers == {Lit(6), Lit(3), Lit(0), This}
ExprExpressions ==
    {And(x, y) : x \in ExprOperands, y \in ExprOperands}
    \cup {Or(x, y) : x \in ExprOperands, y \in ExprOperands}
    \cup {Identifier(name) : name \in ExprNames}
    \cup {Divide(x, y) : x \in ExprNumbers, y \in ExprNumbers}

InitExpr ==
    /\ seed \in ExprThis
    /\ heap = EvalHeap
    /\ program = <<Closed(seed, ExprScope, <<>>)>>
    /\ pc = "running"
    /\ steps = 0
    /\ last = NoOp
    /\ prev = NoOp
    /\ entered = <<>>
    /\ taken = None
    /\ before = [program |-> <<>>, heap |-> EvalHeap, entered |-> <<>>]
    /\ before2 = [program |-> <<>>, heap |-> EvalHeap, entered |-> <<>>]

NextExpr == \E e \in ExprExpressions : Evaluate(e)

SpecExpr == InitExpr /\ [][NextExpr]_vars

(***************************************************************************)
(* Properties of the interpreter under its host (Spec).                    *)
(***************************************************************************)
\* the container at address a of heap h has no pending generator
PendingAbsent(h, a) == h[a].rest = None

Records(p) == [i \in 1..Len(p) |-> p[i].commands]

IsRun(op, command) == op.op = "run" /\ op.cmd = command

Succeeds(h, p, command) == Interpreter_run(World(h), p, command).st = "ok"

\* C1: a run that returns an error leaves the frame stack and every frame's
\* records as they were before the call (the failed command is not recorded,
\* the depth is the same), the interpreter keeps running, and every command
\* that was valid before the failed one still succeeds after it.
FailedRunLeavesProgram ==
    (last.op = "run" /\ last.st = "err") =>
        /\ Len(program) = Len(before.program)
        /\ Records(program) = Records(before.program)
        /\ program = before.program
        /\ pc = "running"
        /\ \A c \in Commands :
               Succeeds(before.heap, before.program, c) => Succeeds(heap, program, c)

\* a command failed inside a descend whose frame already holds a record
FailedRunInOpenFrame ==
    /\ last.op = "run"
    /\ last.st = "err"
    /\ Len(program) > 1
    /\ Active(program).commands # <<>>

\* C2: a successful Expression run followed by undo gives back the value, the
\* scope, the status and the records of the state before the run, the value
\* compared with the program's own equality.
UndoRestoresExpression ==
    (/\ last.op = "undo"
     /\ prev.op = "run"
     /\ prev.st = "ok"
     /\ prev.cmd.kind = "Expression") =>
        /\ ValueEq(heap, Program_value(program), Program_value(before2.program))
        /\ Program_scope(program) = Program_scope(before2.program)
        /\ Program_status(program) = Program_status(before2.program)
        /\ Records(program) = Records(before2.program)

\* an Expression was run and undone inside a descend
UndoneInOpenFrame ==
    /\ last.op = "undo"
    /\ prev.op = "run"
    /\ prev.st = "ok"
    /\ prev.cmd.kind = "Expression"
    /\ Len(program) > 1
    /\ Len(before.program[Len(before.program)].commands) =
           Len(Active(program).commands) + 1

\* C4: on a Dict with at least one pair, the descend (with or without
\* names) and then the ascend without exit expressions both succeed, and the
\* result is a List which, realized, holds for each pair of the Dict, in
\* insertion order, the two-element List [key as a String, value].
DictAscendGivesPairs ==
    (/\ prev.op = "run"
     /\ prev.cmd.kind = "ShiftRight"
     /\ Program_value(before2.program).tag = "dict"
     /\ Len(before2.heap[Program_value(before2.program).at].elements) >= 1
     /\ IsRun(last, cShiftLeft)) =>
        /\ prev.st = "ok"
        /\ last.st = "ok"
        /\ Program_value(program).tag = "list"
        /\ Let1(List_realize_all(World(heap), Program_value(program).at), LAMBDA r :
                /\ r.st = "ok"
                /\ LET h == r.w.heap
                       result == h[Program_value(program).at].elements
                       pairs == h[Program_value(before2.program).at].elements
                   IN  /\ Len(result) = Len(pairs)
                       /\ \A i \in 1..Len(pairs) :
                              /\ result[i].tag = "list"
                              /\ h[result[i].at].elements =
                                     <<StringV(pairs[i].k), pairs[i].v>>)

\* C10: a descend on a value that is neither a List nor a Dict, or on a List
\* with names, returns an error, leaves the program as it was, and the
\* interpreter keeps running.
InvalidDescendIsError ==
    (/\ last.op = "run"
     /\ last.cmd.kind = "ShiftRight"
     /\ \/ Program_value(before.program).tag \notin {"list", "dict"}
        \/ /\ Program_value(before.program).tag = "list"
           /\ last.cmd.kv # NoKV) =>
        /\ last.st = "err"
        /\ program = before.program
        /\ pc = "running"

\* the value, the scope and the status a program shows
Shown(p) == [value |-> Program_value(p), scope |-> Program_scope(p),
             status |-> Program_status(p)]

\* the last operation was a descend on a List without names or on a Dict,
\* and the attempt to realize a first element found none
DescendFoundNothing ==
    /\ last.op = "run"
    /\ last.cmd.kind = "ShiftRight"
    /\ LET this == Program_value(before.program)
       IN  \/ /\ this.tag = "list"
              /\ last.cmd.kv = NoKV
              /\ Let1(List_get(World(before.heap), this.at, 0), LAMBDA r :
                      r.st = "ok" /\ ~r.some)
           \/ /\ this.tag = "dict"
              /\ Let1(Dict_get_first(World(before.heap), this.at), LAMBDA r :
                      r.st = "ok" /\ ~r.some)

\* C11: a descend on a List or a Dict that has no element, once the attempt
\* to realize one was made, fails with ShiftRightEmptySequence and pushes no
\* frame: the frames, their records, the value, the scope and the status are
\* as before.
EmptyDescendFails ==
    DescendFoundNothing =>
        /\ last.st = "err"
        /\ last.err = ShiftRightEmptySequence
        /\ Len(program) = Len(before.program)
        /\ Records(program) = Records(before.program)
        /\ Shown(program) = Shown(before.program)
        /\ program = before.program

\* a descend was tried on the empty Dict that json gave
EmptyDictDescended ==
    /\ DescendFoundNothing
    /\ Program_value(before.program).tag = "dict"
    /\ Active(program).commands # <<>>

\* C12: after any commands and undos, an ascend returns ShiftLeftNotInShift
\* exactly when no descend is open (the active frame is Closed), and then
\* the frames and the containers are as before.
AscendNeedsDescend ==
    (last.op = "run" /\ last.cmd.kind = "ShiftLeft") =>
        /\ (last.st = "err" /\ last.err = ShiftLeftNotInShift)
               <=> ~Active(before.program).open
        /\ ~Active(before.program).open =>
               (program = before.program /\ Left = before.heap)

\* an ascend was refused right after an undo, with records left in the frame
AscendRefusedAfterUndo ==
    /\ last.op = "run"
    /\ last.cmd.kind = "ShiftLeft"
    /\ last.err = ShiftLeftNotInShift
    /\ prev.op = "undo"
    /\ Active(program).commands # <<>>

\* the last operation was an undo issued while a descend was open
UndoInDescend == last.op = "undo" /\ Active(before.program).open

\* a sequence without its last element, the empty sequence when it has none
AllButLast(s) == SubSeq(s, 1, Len(s) - 1)

\* C14: while a descend is open, undo removes only the most recent record
\* of the innermost Open frame and is a no-op when that frame has none: the
\* nesting depth and the status stay, the value stays when nothing was
\* removed, and the parent frames are untouched.
UndoStaysInDescend ==
    UndoInDescend =>
        /\ Len(program) = Len(before.program)
        /\ History(program) = History(before.program)
        /\ Program_status(program) = Program_status(before.program)
        /\ Active(program) =
               [Active(before.program) EXCEPT !.commands = AllButLast(@)]
        /\ Active(before.program).commands = <<>> =>
               /\ program = before.program
               /\ Program_value(program) = Program_value(before.program)

\* an undo found the Open frame without records, after an earlier undo had
\* removed its only record
UndoOnEmptyDescend ==
    /\ UndoInDescend
    /\ Active(before.program).commands = <<>>
    /\ prev.op = "undo"
    /\ Active(before2.program).commands # <<>>
    /\ Active(before2.program).open

\* the last operation was a successful descend on a Dict
DictDescended ==
    /\ last.op = "run"
    /\ last.cmd.kind = "ShiftRight"
    /\ last.st = "ok"
    /\ Program_value(before.program).tag = "dict"

\* the names of the last descend, the defaults when none were supplied
Names == IF last.cmd.kv = NoKV THEN <<"k", "v">> ELSE last.cmd.kv

\* the first pair of the Dict the last descend entered
FirstPair == heap[Program_value(before.program).at].elements[1]

\* the frame is Open with label "dict" and value Null, and the frames under
\* it, their scopes included, are the program the descend found
DictFrameOpened ==
    /\ Active(program).open
    /\ Active(program).name = "dict"
    /\ Program_value(program) = Null
    /\ History(program) = before.program

\* C15 as stated: the descend on a Dict binds the key name to the String of
\* the first key and the value name to the first value, whatever the names.
DictDescendBindsBothNames ==
    DictDescended =>
        /\ DictFrameOpened
        /\ Names[1] \in DOMAIN Program_scope(program)
        /\ Names[2] \in DOMAIN Program_scope(program)
        /\ Program_scope(program)[Names[1]] = StringV(FirstPair.k)
        /\ Program_scope(program)[Names[2]] = FirstPair.v

\* C15: a descend on a Dict with first pair (k0, v0) and names (kn, vn), the
\* defaults when none are supplied, opens a frame labelled "dict" with value
\* Null whose scope binds vn to v0 and, when kn is not vn, kn to the String
\* k0; every other name is bound as in the parent's scope, and the frames
\* under the new one keep their scopes.
DictDescendBindsNames ==
    DictDescended =>
        /\ DictFrameOpened
        /\ DOMAIN Program_scope(program) =
               DOMAIN Program_scope(before.program) \cup {Names[1], Names[2]}
        /\ Program_scope(program)[Names[2]] = FirstPair.v
        /\ Names[1] # Names[2] =>
               Program_scope(program)[Names[1]] = StringV(FirstPair.k)
        /\ \A n \in DOMAIN Program_scope(before.program) \ {Names[1], Names[2]} :
               Program_scope(program)[n] = Program_scope(before.program)[n]

\* a Dict was entered with supplied names that differ from the defaults and
\* from each other
DictEnteredWithNames ==
    /\ DictDescended
    /\ last.cmd.kv = <<"key", "x">>
    /\ Program_scope(program)["key"] = StringV("a")
    /\ Program_scope(program)["x"] = IntV(1)
    /\ "x" \notin DOMAIN Program_scope(before.program)

\* the status entry of a descend into a container of the given kind with the
\* given names: a Dict binds the default names when none are given
StatusEntry(kind, kv) ==
    kind \o " (" \o
    (IF kind = "dict" /\ kv = NoKV THEN "k: v"
     ELSE IF kv = NoKV THEN ""
     ELSE kv[1] \o ": " \o kv[2])
    \o ")"

\* the names the i-th open descend was entered with
EnteredWith(i) == program[i + 1].kv

\* what the last operation must have done to the status
StatusStep ==
    LET old == Program_status(before.program)
    IN  IF last.op = "run" /\ last.st = "ok" /\ last.cmd.kind = "ShiftRight"
        THEN Program_status(program) =
                 Append(old, StatusEntry(Program_value(before.program).tag, last.cmd.kv))
        ELSE IF last.op = "run" /\ last.st = "ok" /\ last.cmd.kind = "ShiftLeft"
        THEN /\ old # <<>>
             /\ Program_status(program) = SubSeq(old, 1, Len(old) - 1)
        ELSE Program_status(program) = old

\* C19: after any operations the status has one entry per open descend, the
\* outermost first, each with the kind of the container entered ("list" or
\* "dict") and the names bound; a successful ShiftRight appends one entry, a
\* successful ShiftLeft removes the last, and every other operation, failed
\* commands included, leaves the status unchanged.
StatusTracksDescends ==
    /\ Len(Program_status(program)) = Len(entered)
    /\ \A i \in 1..Len(entered) :
           /\ Program_value(entered[i]).tag \in {"list", "dict"}
           /\ Program_status(program)[i] =
                  StatusEntry(Program_value(entered[i]).tag, EnteredWith(i))
    /\ StatusStep

\* a Dict entered with names inside a List: two entries, the List's first
NestedStatus ==
    /\ Program_status(program) = <<"list ()", "dict (key: x)">>
    /\ Len(entered) = 2
    /\ last.op = "run"
    /\ last.cmd = cShiftRightNames

\* the value the parent of the f-th frame shows
ParentValue(f) == Program_value(SubSeq(program, 1, f - 1))

\* C27: in every reachable state each Open frame sits on a parent whose
\* current value is a List when the frame's label is "list", and then the
\* frame records no names, or a Dict when the label is "dict", and then it
\* records names; so an ascend never finds a parent value that is not a
\* sequence, whatever commands and undos were issued inside the descend.
OpenFrameOnSequence ==
    /\ ~program[1].open
    /\ \A f \in 2..Len(program) :
           /\ program[f].open
           /\ \/ /\ program[f].name = "list"
                 /\ ParentValue(f).tag = "list"
                 /\ program[f].kv = NoKV
              \/ /\ program[f].name = "dict"
                 /\ ParentValue(f).tag = "dict"
                 /\ program[f].kv # NoKV
    /\ (last.op = "run" /\ last.cmd.kind = "ShiftLeft") =>
           last.err # Abort("unreachable: shifting left when last value is non sequence")

\* an ascend was run in a descend into a Dict right after an undo there
AscendAfterUndoInDict ==
    /\ last.op = "run"
    /\ last.cmd.kind = "ShiftLeft"
    /\ prev.op = "undo"
    /\ Active(before.program).open
    /\ Active(before.program).name = "dict"
    /\ Active(before2.program).open

(***************************************************************************)
(* Properties of the ascend results (SpecLazy).                            *)
(***************************************************************************)
\* the descend without names, then the ascend without exit expressions,
\* with nothing in between, on a List
DescendThenAscend ==
    /\ IsRun(prev, cShiftRight)
    /\ prev.st = "ok"
    /\ Program_value(before2.program).tag = "list"
    /\ IsRun(last, cShiftLeft)

\* C3: on a List with at least one element (its element 0 is realized or
\* can be pulled) the descend without names succeeds; the ascend without
\* exit expressions right after it succeeds and gives a List whose full
\* realization succeeds and has exactly the elements of the original List,
\* fully realized, in the same order.
EmptyGroupIsIdentity ==
    /\ (/\ IsRun(last, cShiftRight)
        /\ Program_value(before.program).tag = "list"
        /\ Let1(List_get(World(before.heap), Program_value(before.program).at, 0),
                LAMBDA g : g.st = "ok" /\ g.some))
       => last.st = "ok"
    /\ DescendThenAscend =>
        /\ last.st = "ok"
        /\ Program_value(program).tag = "list"
        /\ Let1(List_realize_all(World(heap), Program_value(program).at), LAMBDA r :
                /\ r.st = "ok"
                /\ Let1(List_realize_all(r.w, Program_value(before2.program).at),
                        LAMBDA o :
                        /\ o.st = "ok"
                        /\ LET h == o.w.heap
                               result == h[Program_value(program).at]
                               original == h[Program_value(before2.program).at]
                           IN  /\ Len(result.elements) = Len(original.elements)
                               /\ \A i \in 1..Len(original.elements) :
                                      ValueEq(h, result.elements[i],
                                              original.elements[i])))

\* the replays an operation ran for the ascend result at address `owner`:
\* the indices of the source elements, in the order they were replayed
ReplayedFor(op, owner) ==
    LET mine == SelectSeq(op.replays, LAMBDA e : e.owner = owner)
    IN  [j \in 1..Len(mine) |-> mine[j].index]

\* C5: right after a successful ascend, before the prompt samples the
\* result, nothing has been replayed: the result has no realized element and
\* a pending generator.  A query `get i` on an
\* ascend result with r elements realized replays the source elements r,
\* r + 1, ... one after the other, none beyond index i and none of the
\* elements already realized.
ReplayOnlyOnDemand ==
    /\ (last.op = "run" /\ last.cmd.kind = "ShiftLeft" /\ last.st = "ok") =>
        /\ last.replays = <<>>
        /\ Left[Program_value(program).at].elements = <<>>
        /\ Left[Program_value(program).at].rest.kind = "replay"
    /\ \A i \in 0..MaxLazySteps :
        (/\ IsRun(last, cGet(i))
         /\ Program_value(before.program).tag = "list"
         /\ before.heap[Program_value(before.program).at].rest.kind = "replay") =>
            LET at == Program_value(before.program).at
                r == Len(before.heap[at].elements)
                replayed == ReplayedFor(last, at)
            IN  \A j \in 1..Len(replayed) :
                    /\ replayed[j] = r + j - 1
                    /\ replayed[j] <= i

\* the last two operations were a successful ascend and then an undo
AscendThenUndo ==
    /\ last.op = "undo"
    /\ prev.op = "run"
    /\ prev.cmd.kind = "ShiftLeft"
    /\ prev.st = "ok"

\* the program that the ShiftRight of the descend just closed had found
BeforeDescend == before2.entered[Len(before2.entered)]

\* C13: after a successful descend, successful commands inside it and a
\* successful ascend, one undo removes the whole Group record: the nesting
\* depth, the records of every frame and the value are those of the state
\* the ShiftRight found.
GroupUndoneAsOneStep ==
    AscendThenUndo =>
        /\ Len(program) = Len(BeforeDescend)
        /\ Records(program) = Records(BeforeDescend)
        /\ Program_value(program) = Program_value(BeforeDescend)

\* the undone Group had a command recorded inside its descend
GroupWithCommandUndone ==
    /\ AscendThenUndo
    /\ Active(before2.program).commands # <<>>
    /\ Active(before.program).commands # <<>>
    /\ Active(before.program).commands[Len(Active(before.program).commands)]
           .command.kind = "Group"

\* the last line queried an element of the current value, a List whose
\* pending generator is the replay an ascend stored: the command `get`
QueriedAscendResult ==
    /\ last.op = "run"
    /\ last.cmd \in {cGet(0), cGet(1)}
    /\ Program_value(before.program).tag = "list"
    /\ before.heap[Program_value(before.program).at].rest.kind = "replay"

\* the prompt after the last line sampled such a List
SampledAscendResult ==
    /\ last.prompt.shown
    /\ Program_value(program).tag = "list"
    /\ Left[Program_value(program).at].rest.kind = "replay"

\* C20: querying an element of a lazy container never ends in an engine
\* fault: when pulling the element fails, the replay of the recorded
\* commands on an element included, the query returns an error.
QueryNeverFaults ==
    /\ QueriedAscendResult => last.st \in {"ok", "err"}
    /\ SampledAscendResult => last.prompt.st \in {"ok", "err"}

\* the value a frame showed before its j-th record
Source(frame, j) ==
    IF j = 1 THEN frame.initial ELSE frame.commands[j - 1].result

\* the j-th record of the frame is the Group of a list descend whose
\* recorded commands are all Expression commands
IsListGroup(frame, j) ==
    /\ frame.commands[j].command.kind = "Group"
    /\ frame.commands[j].command.name = "list"
    /\ \A c \in 1..Len(frame.commands[j].command.commands) :
           frame.commands[j].command.commands[c].kind = "Simple"

\* the result of a Group record against its source: each realized element
\* is what the recorded commands give on a fresh Closed frame on the source
\* element of the same index, with the frame's scope; a result with nothing
\* pending has as many elements as the source
ReplayOf(frame, j) ==
    LET record == frame.commands[j]
        R == heap[record.result.at]
        S == heap[Source(frame, j).at]
    IN  /\ \A i \in 1..Len(R.elements) :
               /\ i <= Len(S.elements)
               /\ Let1(rerun_each(World(heap),
                                  <<Closed(S.elements[i], frame.scope, <<>>)>>,
                                  record.command.commands, 1),
                       LAMBDA r :
                       /\ r.st = "ok"
                       /\ ValueEq(r.w.heap, R.elements[i], Program_value(r.program)))
        /\ PendingAbsent(heap, record.result.at) =>
               Len(R.elements) = Len(S.elements)

\* C21: after the ascend from a list descend with recorded commands c1..cn,
\* the i-th element of the result, once realized, is the value c1..cn give
\* on a fresh Closed frame on the i-th element of the descended container
\* with the entry scope, for every i, and the result has as many elements as
\* that container.
AscendResultIsReplay ==
    \A f \in 1..Len(program) :
        \A j \in 1..Len(program[f].commands) :
            IsListGroup(program[f], j) => ReplayOf(program[f], j)

\* the sample of the prompt failed inside the replay of a source element of
\* the ascend result it showed, and the next line left the interpreter alone,
\* so that its prompt sampled the same result again
PullFailedThenRetried ==
    /\ last.op = "sample"
    /\ prev.prompt.shown
    /\ prev.prompt.st = "err"
    /\ Program_value(program).tag = "list"
    /\ before.heap[Program_value(program).at].rest.kind = "replay"
    /\ Len(ReplayedFor(prev.prompt, Program_value(program).at)) >
           Len(before.heap[Program_value(program).at].elements)
           - Len(prev.prompt.found[Program_value(program).at].elements)

\* C28: a failed pull leaves the realized prefix of an ascend result as it
\* is, every element of it standing at the index of its source element, and
\* the retried query attempts the failed source element again, at the same
\* index, instead of skipping it.
FailedPullIsRetried ==
    PullFailedThenRetried =>
        LET at == Program_value(program).at
            tried == ReplayedFor(prev.prompt, at)
            failed == tried[Len(tried)]
        IN  /\ Len(before.heap[at].elements) = failed
            /\ ReplayedFor(last, at) # <<>>
            /\ ReplayedFor(last, at)[1] = failed
            /\ Len(heap[at].elements) = failed
            /\ last.st = "err"

(***************************************************************************)
(* Properties of the containers on their own (SpecData).                   *)
(***************************************************************************)

\* the container before the last query, and whether it had a generator
Queried == before.heap[DataAt]
HadGenerator == Queried.rest.kind = "stub"

\* how many items the generator can give to one query: all of them, or those
\* up to its first failing item, which ends the query
CanGive(items) ==
    IF \E j \in 1..Len(items) : ~items[j].ok
    THEN CHOOSE j \in 1..Len(items) : ~items[j].ok /\ \A k \in 1..(j - 1) : items[k].ok
    ELSE Len(items)

\* how many items a query for `key` needs: those up to the first with the key
UpToKey(items, key) ==
    IF \E j \in 1..CanGive(items) : items[j].ok /\ items[j].v.k = key
    THEN CHOOSE j \in 1..CanGive(items) :
             /\ items[j].ok /\ items[j].v.k = key
             /\ \A k \in 1..(j - 1) : ~(items[k].ok /\ items[k].v.k = key)
    ELSE CanGive(items)

\* the index lookups of a List pull the i + 1 - r items missing, or all the
\* generator can give
ListGetPullsExactly ==
    (last.op = "List_get" /\ HadGenerator /\ Len(Queried.elements) < last.n + 1) =>
        last.pulls = Min(last.n + 1 - Len(Queried.elements), CanGive(Queried.rest.items))

\* the same for the index lookups of a Dict, get_first being the lookup of index 0
DictIndexPullsExactly ==
    (/\ last.op \in {"Dict_get_nth", "Dict_get_first"}
     /\ HadGenerator
     /\ Len(Queried.elements) < last.n + 1) =>
        last.pulls = Min(last.n + 1 - Len(Queried.elements), CanGive(Queried.rest.items))

\* the lookup of a key that is not realized pulls up to the item with the key
DictKeyPullsExactly ==
    (last.op = "Dict_get" /\ HadGenerator /\ ~HasKey(Queried.elements, last.key)) =>
        last.pulls = UpToKey(Queried.rest.items, last.key)

\* C6: a lookup that needs elements beyond the realized prefix pulls from the
\* generator exactly the items needed to answer and no more: i + 1 - r items
\* for an index i with r items realized (fewer only if the generator ends
\* first), so one pair for get_first on a Dict with nothing realized.
LookupsPullExactly ==
    /\ ListGetPullsExactly
    /\ DictIndexPullsExactly
    /\ DictKeyPullsExactly

\* the Dict as constructed holds the key: realized, or among the items of a
\* generator none of whose items fails
Generates(obj, key) ==
    \/ HasKey(obj.elements, key)
    \/ /\ obj.rest.kind = "stub"
       /\ \E j \in 1..Len(obj.rest.items) : obj.rest.items[j].v.k = key

NeverFails(obj) ==
    obj.rest.kind = "stub" => \A j \in 1..Len(obj.rest.items) : obj.rest.items[j].ok

\* C7: whatever lookups came before, get(key) on a Dict returns a value
\* exactly when the key is realized or produced by the generator, and absent
\* only when the whole sequence does not hold the key.
KeyLookupFindsEveryKey ==
    (last.op = "Dict_get" /\ NeverFails(seed)) =>
        /\ last.st = "ok"
        /\ last.some <=> Generates(seed, last.key)

\* one step keeps an absent generator absent and the elements with it, pulls
\* nothing when the container under test has none, and a successful
\* realize_all leaves none
AbsentStep ==
    /\ \A a \in DOMAIN heap :
           PendingAbsent(heap, a) =>
               /\ a \in DOMAIN heap'
               /\ PendingAbsent(heap', a)
               /\ heap'[a].elements = heap[a].elements
    /\ PendingAbsent(heap, DataAt) => last'.pulls = 0
    /\ (last'.op \in {"List_realize_all", "Dict_realize_all"} /\ last'.st = "ok") =>
           PendingAbsent(heap', DataAt)

\* C16: once the pending generator of a List or a Dict is exhausted or
\* dropped it stays absent under every later operation; after a successful
\* realize_all no later get, realize_all or sample pulls from a generator or
\* changes the realized elements.
PendingStaysAbsent == [][AbsentStep]_vars

\* a List was queried past its end after a realize_all had drained a
\* generator that gave elements
QueriedAfterRealizeAll ==
    /\ prev.op = "List_realize_all"
    /\ prev.st = "ok"
    /\ prev.pulls > 0
    /\ last.op = "List_get"
    /\ last.n >= Len(heap[DataAt].elements)
    /\ PendingAbsent(before.heap, DataAt)

\* the last step was a realize_all that failed on an item of the generator
RealizeAllFailed ==
    /\ last.op \in {"List_realize_all", "Dict_realize_all"}
    /\ last.st = "err"
    /\ ~PendingAbsent(before.heap, DataAt)

\* C29: a realize_all that fails on a pulled item leaves the generator in
\* the container, as a failed get does, so that the items after the failing
\* one can still be realized: the container is not cut off at the elements
\* realized before the failure.
FailedRealizeAllKeepsGenerator ==
    RealizeAllFailed => ~PendingAbsent(heap, DataAt)

\* the same for a lookup by index, which goes through realize_n
FailedGetKeepsGenerator ==
    (/\ last.op \in {"List_get", "Dict_get_nth", "Dict_get_first"}
     /\ last.st = "err"
     /\ ~PendingAbsent(before.heap, DataAt))
        => ~PendingAbsent(heap, DataAt)

(***************************************************************************)
(* Properties of nested descends (SpecNest).                               *)
(***************************************************************************)
\* the j-th record of the frame is the Group of a list descend that holds
\* one Group of a list descend holding Expression commands only
IsNestedGroup(frame, j) ==
    /\ frame.commands[j].command.kind = "Group"
    /\ frame.commands[j].command.name = "list"
    /\ Len(frame.commands[j].command.commands) = 1
    /\ frame.commands[j].command.commands[1].kind = "Group"
    /\ frame.commands[j].command.commands[1].name = "list"
    /\ \A c \in 1..Len(frame.commands[j].command.commands[1].commands) :
           frame.commands[j].command.commands[1].commands[c].kind = "Simple"

\* the realized elements of the inner result `inner` are the replays of
\* `commands` on the elements of the inner list `original` at the same index
InnerReplayOf(inner, original, scope, commands) ==
    /\ inner.tag = "list"
    /\ original.tag = "list"
    /\ \A k \in 1..Len(heap[inner.at].elements) :
           /\ k <= Len(heap[original.at].elements)
           /\ Let1(rerun_each(World(heap),
                              <<Closed(heap[original.at].elements[k], scope, <<>>)>>,
                              commands, 1),
                   LAMBDA r :
                   /\ r.st = "ok"
                   /\ ValueEq(r.w.heap, heap[inner.at].elements[k],
                              Program_value(r.program)))
    /\ PendingAbsent(heap, inner.at) =>
           Len(heap[inner.at].elements) = Len(heap[original.at].elements)

\* the result of a nested Group record against its source, a list of lists
NestedReplayOf(frame, j) ==
    LET record == frame.commands[j]
        R == heap[record.result.at]
        S == heap[Source(frame, j).at]
    IN  /\ \A i \in 1..Len(R.elements) :
               /\ i <= Len(S.elements)
               /\ InnerReplayOf(R.elements[i], S.elements[i], frame.scope,
                                record.command.commands[1].commands)
        /\ PendingAbsent(heap, record.result.at) =>
               Len(R.elements) = Len(S.elements)

\* C22: a descend into a list makes its first element the current value, so
\* two descends into a list of lists give the first element of the first
\* inner list; after commands at the inner level and two ascends, the
\* result, as far as it is realized at both levels, has for j-th element a
\* list whose elements are the replays of the inner commands on the elements
\* of the j-th inner list, with as many elements as it, and has as many
\* elements as the outer list.
NestedResultIsReplay ==
    /\ (/\ IsRun(last, cShiftRight)
        /\ last.st = "ok"
        /\ Program_value(before.program).tag = "list")
       => Program_value(program) = heap[Program_value(before.program).at].elements[1]
    /\ \A f \in 1..Len(program) :
           \A j \in 1..Len(program[f].commands) :
               IsNestedGroup(program[f], j) => NestedReplayOf(program[f], j)

(***************************************************************************)
(* Properties of eval_expression on a FunctionCall (SpecEval).  The        *)
(* current value is `seed`; f accepts 1 or 2 arguments, g accepts 2.       *)
(***************************************************************************)
Evaluated(e) == last.op = "eval" /\ last.cmd.expr = e

Call(name, args) == [name |-> name, args |-> args]

\* C8 as stated: f called with one explicit argument a is invoked with
\* [current value, a]; called with two it is invoked with those two.
OneArgumentGetsThis ==
    /\ \A a \in {1, 2} :
           Evaluated(FunctionCall("f", <<Lit(a)>>)) =>
               last.calls = <<Call("f", <<seed, IntV(a)>>)>>
    /\ Evaluated(FunctionCall("f", <<Lit(1), Lit(2)>>)) =>
           last.calls = <<Call("f", <<IntV(1), IntV(2)>>)>>

\* C8 as the code has it: f called with one explicit argument a is invoked
\* with [a] alone, one being an arity f accepts; called with two it is
\* invoked with those two; called with none it is invoked with the current
\* value, none not being accepted.
OneArgumentIsAccepted ==
    /\ \A a \in {1, 2} :
           Evaluated(FunctionCall("f", <<Lit(a)>>)) =>
               last.st = "ok" /\ last.calls = <<Call("f", <<IntV(a)>>)>>
    /\ Evaluated(FunctionCall("f", <<Lit(1), Lit(2)>>)) =>
           last.st = "ok" /\ last.calls = <<Call("f", <<IntV(1), IntV(2)>>)>>
    /\ Evaluated(FunctionCall("f", <<>>)) =>
           last.st = "ok" /\ last.calls = <<Call("f", <<seed>>)>>

\* f was called with one explicit argument and invoked with it alone
CalledWithOneArgument ==
    /\ Evaluated(FunctionCall("f", <<Lit(1)>>))
    /\ last.calls = <<Call("f", <<IntV(1)>>)>>

\* the value of an argument that is a literal or the current value
ArgValue(arg) == IF arg.kind = "This" THEN seed ELSE arg.v

\* C9: a call whose name is unbound or bound to a non-function fails with
\* FunctionNotFound; with n arguments, n and n + 1 both not accepted, it
\* fails with InvalidArity(name, n, accepted) and nothing is invoked; with n
\* not accepted and n + 1 accepted the implementation receives the current
\* value followed by the n argument values; the arguments are evaluated from
\* left to right; `get 1` on the List [1, 2, 3, 4] gives 2.
FunctionCallRule ==
    \A e \in EvalExpressions : Evaluated(e) =>
        LET n == Len(e.args)
            bound == e.name \in DOMAIN EvalScope
            simple == \A i \in 1..n : e.args[i].kind \in {"This", "Literal"}
            values == [i \in 1..n |-> ArgValue(e.args[i])]
        IN  /\ (~bound \/ (bound /\ EvalScope[e.name].tag # "function")) =>
                /\ last.st = "err"
                /\ last.err = FunctionNotFound(e.name)
                /\ last.calls = <<>>
            /\ (bound /\ EvalScope[e.name].tag = "function") =>
                LET accepted == EvalScope[e.name].arities
                IN  /\ (~Contains(accepted, n) /\ ~Contains(accepted, n + 1)) =>
                        /\ last.st = "err"
                        /\ last.err = InvalidArity(e.name, n, accepted)
                        /\ last.calls = <<>>
                    /\ (~Contains(accepted, n) /\ Contains(accepted, n + 1) /\ simple) =>
                        last.calls = <<Call(e.name, <<seed>> \o values)>>
                    /\ (Contains(accepted, n) /\ simple) =>
                        last.calls = <<Call(e.name, values)>>
            /\ (e = FunctionCall("g", <<FunctionCall("f", <<Lit(1)>>)>>)) =>
                last.calls = <<Call("f", <<IntV(1)>>), Call("g", <<seed, Null>>)>>
            /\ (e = FunctionCall("g", <<FunctionCall("f", <<Lit(1)>>),
                                       FunctionCall("f", <<Lit(2)>>)>>)) =>
                last.calls = <<Call("f", <<IntV(1)>>), Call("f", <<IntV(2)>>),
                               Call("g", <<Null, Null>>)>>
            /\ (e = FunctionCall("g", <<FunctionCall("print", <<>>),
                                       FunctionCall("f", <<Lit(1)>>)>>)) =>
                last.err = FunctionNotFound("print") /\ last.calls = <<>>
            /\ (e = FunctionCall("g", <<FunctionCall("f", <<Lit(1)>>),
                                       FunctionCall("print", <<>>)>>)) =>
                /\ last.err = FunctionNotFound("print")
                /\ last.calls = <<Call("f", <<IntV(1)>>)>>
            /\ (e = FunctionCall("get", <<Lit(1)>>) /\ seed = ListRef(1)) =>
                last.st = "ok" /\ last.val = IntV(2)

\* `get 1` was evaluated on the List [1, 2, 3, 4]: get received the List, then 1
GetOneOnList ==
    /\ Evaluated(FunctionCall("get", <<Lit(1)>>))
    /\ seed = ListRef(1)
    /\ last.calls = <<Call("get", <<ListRef(1), IntV(1)>>)>>
    /\ last.val = IntV(2)

(***************************************************************************)
(* Properties of the builtins get and assoc (SpecBuiltin).                 *)
(***************************************************************************)
\* the elements with the given index (a List) or key (a Dict) bound to val:
\* a key the Dict does not have is added after the others
Updated(op, elements, n, key, val) ==
    IF op = "List_assoc"
    THEN [i \in 1..Len(elements) |-> IF i = n + 1 THEN val ELSE elements[i]]
    ELSE IF \E i \in 1..Len(elements) : elements[i].k = key
    THEN [i \in 1..Len(elements) |->
             IF elements[i].k = key THEN Pair(key, val) ELSE elements[i]]
    ELSE Append(elements, Pair(key, val))

\* what the last assoc must have done, given what realizing the whole
\* container it was applied to does
AssocDid(full) ==
    IF full.st # "ok" THEN last.st = "err" /\ last.err = full.err
    ELSE /\ heap[DataAt] = full.w.heap[DataAt]
         /\ PendingAbsent(heap, DataAt)
         /\ IF last.op = "List_assoc" /\ last.n >= Len(heap[DataAt].elements)
            THEN /\ last.st = "err"
                 /\ last.err = BuiltinFunctionError(
                                   "index out of bounds: " \o ToString(last.n))
                 /\ heap = full.w.heap
            ELSE /\ last.st = "ok"
                 /\ last.val.tag = heap[DataAt].kind
                 /\ last.val.at \notin DOMAIN before.heap
                 /\ last.val.at # DataAt
                 /\ PendingAbsent(heap, last.val.at)
                 /\ heap[last.val.at].elements =
                        Updated(last.op, heap[DataAt].elements, last.n, last.key,
                                AssocValue)

\* C17: assoc realizes the whole container and returns a new container
\* without generator whose elements are the container's with only the given
\* index or key bound to the value; the container it was given keeps its own
\* elements.  On a List an index at or beyond the length fails with the
\* out-of-bounds BuiltinFunctionError.
AssocIsNonDestructive ==
    last.op \in {"List_assoc", "Dict_assoc"} =>
        Let1(IF last.op = "List_assoc"
             THEN List_realize_all(World(before.heap), DataAt)
             ELSE Dict_realize_all(World(before.heap), DataAt),
             AssocDid)

\* assoc at index 1 of the List 0, 1, 2, of which 1 and 2 came from the
\* generator: the result is 0, 99, 2 and the List still reads 0, 1, 2
AssocInTheMiddle ==
    /\ last.op = "List_assoc"
    /\ last.st = "ok"
    /\ last.n = 1
    /\ last.pulls > 0
    /\ heap[DataAt].elements = <<IntV(0), IntV(1), IntV(2)>>
    /\ heap[last.val.at].elements = <<IntV(0), AssocValue, IntV(2)>>

\* the values the Dict as constructed binds to the key, realized or pending
BoundTo(obj, key) ==
    {obj.elements[i].v : i \in {j \in 1..Len(obj.elements) : obj.elements[j].k = key}}
    \cup (IF obj.rest.kind = "stub"
          THEN {obj.rest.items[i].v.v :
                    i \in {j \in 1..Len(obj.rest.items) : obj.rest.items[j].v.k = key}}
          ELSE {})

\* C18: the builtin get with a String key on a Dict returns the value bound
\* to the key whenever the key is realized or would be produced by the
\* pending generator, and Null only when the whole sequence lacks the key.
BuiltinGetFindsEveryKey ==
    (last.op = "builtin_get" /\ NeverFails(seed)) =>
        /\ last.st = "ok"
        /\ IF Generates(seed, last.key)
           THEN last.val \in BoundTo(seed, last.key)
           ELSE last.val = Null

(***************************************************************************)
(* Properties of the records under nested descends (SpecNest).             *)
(***************************************************************************)
\* two record lists differ at most by the last record of the longer one
SameButLast(old, new) ==
    /\ Len(new) \in {Len(old) - 1, Len(old), Len(old) + 1}
    /\ \A i \in 1..Min(Len(old), Len(new)) : new[i] = old[i]

\* the Group record an ascend with the given exit expressions builds from
\* the Open frame it closes
GroupOf(frame, leave_kv) ==
    Group(frame.name, frame.kv,
          [i \in 1..Len(frame.commands) |-> frame.commands[i].command], leave_kv)

\* the last operation was a successful ascend: the parent frame is active,
\* it has one more record, the Group of the closed frame, and the frames
\* under it are untouched
AscendPushedGroup ==
    LET old == before.program
        parent == old[Len(old) - 1]
    IN  /\ Len(program) = Len(old) - 1
        /\ History(program) = SubSeq(old, 1, Len(old) - 2)
        /\ Len(Active(program).commands) = Len(parent.commands) + 1
        /\ Active(program) =
               [parent EXCEPT !.commands =
                    Append(@, CachedCommand(GroupOf(Active(old), last.cmd.leave_kv),
                                            Program_value(program)))]

\* C23: a successful ascend appends one Group record to the parent frame,
\* with the closed frame's label, entry names, recorded commands in order
\* and the exit expressions, makes the parent the active frame and leaves
\* the earlier records of the parent and of the frames under it unchanged;
\* every operation only pushes or pops the last record of a frame and
\* never alters an earlier record.
AscendAppendsOneGroup ==
    /\ (last.op = "run" /\ last.cmd.kind = "ShiftLeft" /\ last.st = "ok")
           => AscendPushedGroup
    /\ \A f \in 1..Min(Len(program), Len(before.program)) :
           SameButLast(before.program[f].commands, program[f].commands)

\* an ascend closed a descend nested in another, with two commands recorded
GroupOfTwoPushed ==
    /\ last.op = "run"
    /\ last.cmd.kind = "ShiftLeft"
    /\ last.st = "ok"
    /\ Len(before.program) = 3
    /\ Len(Active(before.program).commands) = 2
    /\ Len(Active(program).commands) = 1

(***************************************************************************)
(* Properties of eval_expression on And, Or and Identifier (SpecExpr).     *)
(***************************************************************************)
\* the value of an operand of the model: a literal or the current value
OperandValue(e) == IF e.kind = "This" THEN seed ELSE e.v

\* the last evaluation was of And or Or, and it evaluates its second operand
SecondEvaluated ==
    \/ last.cmd.expr.kind = "And" /\ OperandValue(last.cmd.expr.x) = BoolV(TRUE)
    \/ last.cmd.expr.kind = "Or" /\ OperandValue(last.cmd.expr.x) = BoolV(FALSE)

\* C24: And and Or fail with InvalidType(boolean) whenever an operand that
\* gets evaluated yields a non-boolean, the second operand after a true
\* first one for And and after a false first one for Or included, so that a
\* successful And / Or gives a Bool.
AndOrNeedBooleans ==
    (last.op = "eval" /\ last.cmd.expr.kind \in {"And", "Or"}) =>
        /\ (\/ OperandValue(last.cmd.expr.x).tag # "bool"
            \/ SecondEvaluated /\ OperandValue(last.cmd.expr.y).tag # "bool")
               => (last.st = "err" /\ last.err = InvalidType("boolean"))
        /\ last.st = "ok" => last.val.tag = "bool"

\* the value bound to `name` is a Function that accepts 0 or 1 arguments
TakesNoneOrOne(name) ==
    /\ ExprScope[name].tag = "function"
    /\ (Contains(ExprScope[name].arities, 0) \/ Contains(ExprScope[name].arities, 1))

\* C25: an Identifier bound to a Function that accepts 0 or 1 arguments
\* invokes it at once, with no explicit argument; bound to any other value,
\* a Function that accepts neither 0 nor 1 arguments included, it gives the
\* bound value as it is, without error; an unbound name fails with
\* VariableNotFound(name).
IdentifierRule ==
    (last.op = "eval" /\ last.cmd.expr.kind = "Identifier") =>
        LET name == last.cmd.expr.name
        IN  IF name \notin DOMAIN ExprScope
            THEN last.st = "err" /\ last.err = VariableNotFound(name) /\ last.calls = <<>>
            ELSE IF TakesNoneOrOne(name)
            THEN /\ Len(last.calls) = 1
                 /\ last.calls[1].name = name
                 /\ last.calls[1].args =
                        IF Contains(ExprScope[name].arities, 0) THEN <<>> ELSE <<seed>>
            ELSE /\ last.st = "ok"
                 /\ last.val = ExprScope[name]
                 /\ last.calls = <<>>

(***************************************************************************)
(* Properties of Value::sample (SpecSample).                               *)
(***************************************************************************)

\* how many items the generator of a container can still give
Available(obj) == IF obj.rest.kind = "stub" THEN Len(obj.rest.items) ELSE 0

\* the last sample left the container at address a with its first SampleSize
\* elements realized and no more, or with what it had or could get, and
\* with its generator when more than SampleSize elements were on offer
SampledTo(a) ==
    LET old == before.heap[a]
        new == heap[a]
    IN  /\ Len(new.elements) =
               Max(Len(old.elements),
                   Min(SampleSize, Len(old.elements) + Available(old)))
        /\ Len(old.elements) + Available(old) > SampleSize => ~PendingAbsent(heap, a)

\* the containers among the values a container holds
HeldContainers(a) ==
    {Held(heap, [tag |-> heap[a].kind, at |-> a])[i].at :
        i \in {j \in 1..Len(heap[a].elements) :
                  Held(heap, [tag |-> heap[a].kind, at |-> a])[j].tag \in {"list", "dict"}}}

\* C26: sample on a List or a Dict realizes a prefix of 3 elements and no
\* more: with nothing realized and at least 4 elements on offer, exactly 3
\* are realized afterwards and the generator stays; the same holds for each
\* realized element that is itself a container.
SampleRealizesThree ==
    (last.op = "sample" /\ last.st = "ok") =>
        /\ SampledTo(DataAt)
        /\ \A a \in HeldContainers(DataAt) : SampledTo(a)


(***************************************************************************)
(* Properties of the first element of an ascend result (SpecNest).         *)
(***************************************************************************)
\* the last step was a successful ascend out of a list descend
AscendedFromList ==
    /\ IsRun(last, cShiftLeft)
    /\ last.st = "ok"
    /\ Active(before.program).open
    /\ Active(before.program).name = "list"

\* the values x and y are equal once both are realized
RealizedEq(w, x, y) ==
    Let1(Value_realize(w, x), LAMBDA a :
         /\ a.st = "ok"
         /\ Let1(Value_realize(a.w, y), LAMBDA b :
                 /\ b.st = "ok"
                 /\ ValueEq(b.w.heap, x, y)))

\* C30: after a successful ascend out of a list descend, the first element
\* of the result can be realized and is, as a realized value, the value the
\* Open frame showed just before the ascend.
FirstIsPreview ==
    AscendedFromList =>
        Let1(List_get(World(heap), Program_value(program).at, 0), LAMBDA g :
             /\ g.st = "ok"
             /\ g.some
             /\ RealizedEq(g.w, g.val, Program_value(before.program)))


(***************************************************************************)
(* Properties of commands undone inside a descend (SpecLazy).              *)
(***************************************************************************)
RECURSIVE Realized(_, _), RealizedEach(_, _, _, _)
\* the content of a value once it is realized at every level, without the
\* addresses, or the error the realization ends in
Realized(w, v) ==
    IF v.tag = "list"
    THEN Let1(List_realize_all(w, v.at), LAMBDA r :
              IF r.st # "ok" THEN [w |-> r.w, st |-> r.st, err |-> r.err, content |-> <<>>]
              ELSE RealizedEach(r.w, r.w.heap[v.at].elements, 1, <<>>))
    ELSE [w |-> w, st |-> "ok", err |-> NoError, content |-> v]

RealizedEach(w, es, i, done) ==
    IF i > Len(es) THEN [w |-> w, st |-> "ok", err |-> NoError, content |-> done]
    ELSE Let1(Realized(w, es[i]), LAMBDA r :
              IF r.st # "ok" THEN r
              ELSE RealizedEach(r.w, es, i + 1, Append(done, r.content)))

\* what an ascend leaves to see: how it ended, the Group it recorded, and
\* the content of its result once realized
AscendOutcome(w, p) ==
    Let1(Interpreter_run(w, p, cShiftLeft), LAMBDA r :
         IF r.st # "ok" THEN [st |-> r.st, err |-> r.err]
         ELSE Let1(Realized(r.w, Program_value(r.program)), LAMBDA c :
                   [st |-> "ok",
                    group |-> Active(r.program).commands[
                                  Len(Active(r.program).commands)].command,
                    records |-> Len(Active(r.program).commands),
                    realized |-> [st |-> c.st, err |-> c.err, content |-> c.content]]))

\* the Expression commands that are run and undone
UndoneCommands == {cJson, cGet(0), cGet(1), cMinus}

\* running the command and undoing it leaves the records of the program and
\* the outcome of the ascend as they are without it
UndoneLeavesNoTrace(command) ==
    Let1(Interpreter_run(World(heap), program, command), LAMBDA r :
         r.st = "ok" =>
             /\ Records(Interpreter_undo(r.program)) = Records(program)
             /\ AscendOutcome(r.w, Interpreter_undo(r.program))
                    = AscendOutcome(World(heap), program))

\* C31: a command that was run and undone inside an open descend is not in
\* the Group record of the ascend and is not replayed: the Group's commands
\* and the realized result of the ascend are those of the session in which
\* the command was never issued.
UndoneIsNotRecorded ==
    /\ Active(program).open =>
           \A command \in UndoneCommands : UndoneLeavesNoTrace(command)
    /\ (/\ IsRun(last, cShiftLeft)
        /\ last.st = "ok"
        /\ prev.op = "undo"
        /\ Active(before2.program).commands # <<>>)
       => Active(program).commands[Len(Active(program).commands)].command.commands
              = AllButLast([i \in 1..Len(Active(before2.program).commands) |->
                                Active(before2.program).commands[i].command])

\* an ascend right after the undo of a command that had been run inside the
\* descend and had changed its value
AscendedAfterUndo ==
    /\ IsRun(last, cShiftLeft)
    /\ last.st = "ok"
    /\ prev.op = "undo"
    /\ Active(before2.program).open
    /\ Active(before2.program).commands # <<>>
    /\ Active(before2.program).commands[
           Len(Active(before2.program).commands)].command.kind = "Simple"
    /\ Program_value(before2.program) # Program_value(before.program)


(***************************************************************************)
(* Properties of the done directive on a lazy result (SpecDone).           *)
(***************************************************************************)
\* the List the done directive is realizing and the container its generator
\* reads from
RealizingList == heap[Program_value(program).at]
RealizingSource ==
    IF taken.src = "list" THEN heap[taken.iter.list] ELSE heap[taken.iter.dict]

\* while the loop runs, the generator has given no more items than its
\* source holds elements
WithinSource ==
    (pc = "realizing" /\ taken.kind = "replay") =>
        /\ taken.iter.index <= Len(RealizingSource.elements)
        /\ Len(RealizingList.elements) <= taken.iter.index

\* C32: for every value the commands and undos of a session can reach, the
\* realize_all of the done directive terminates: the generator gives no
\* more items than its source has elements, and the loop, once entered,
\* ends with the generator exhausted or with an error.
DoneTerminates ==
    /\ []WithinSource
    /\ (pc = "realizing") ~> (pc \in {"exited", "aborted"})

\* the loop ended on an exhausted generator after it had pulled an item of
\* an ascend result of three or more elements, the first of them realized
\* by the prompt
DoneRealizedResult ==
    /\ pc = "exited"
    /\ last.op = "pull"
    /\ last.st = "ok"
    /\ ~last.some
    /\ prev.op = "pull"
    /\ Len(RealizingList.elements) >= 3
    /\ last.replays = <<>>
    /\ prev.replays # <<>>

====
